---- MODULE Spec2Model ----
(***************************************************************************)
(* A model of the "version" repository engine (a Git-like store with an    *)
(* index, refs, a commit graph, three-way merge and fetch/push/clone).     *)
(*                                                                         *)
(* Strings that name refs are modelled as sequences of path segments, the  *)
(* string "refs/heads/master" being <<"refs", "heads", "master">>, so that *)
(* concatenation ("refs/heads/" + name) and the ref regular expressions    *)
(* act on them as they do on the strings.  A hash is modelled by the       *)
(* object it is the digest of (the digest is injective on the objects of   *)
(* a run), "undefined" by the empty sequence.                              *)
(***************************************************************************)
EXTENDS Integers, Sequences, FiniteSets, TLC

VARIABLE world

vars == <<world>>

---------------------------------------------------------------------------
(* Bounds of the model.                                                    *)

\* commits the stores may hold: a command that would leave more is not offered
MaxCommits == 3
\* distinct plain file contents a user may write
MaxContent == 2
\* the same, over both stores, in the runs with a peer
MaxSyncCommits == 2
\* the same, in the runs that check out every form of ref
MaxRefsCommits == 2

---------------------------------------------------------------------------
(* Values.                                                                 *)

None == <<>>

Repos == {"L", "P"}
Paths == {"a", "b"}
Stages == 0..3

\* every path segment the model's strings are built from
Words == {"refs", "heads", "remotes", "master", "feat", "origin",
          "HEAD", "MERGE_HEAD", "FETCH_HEAD", "MERGE_MSG", "undefined"}

\* the segments matching [A-Za-z-]+ (no underscore, no digit, no slash)
LetterWords == {"refs", "heads", "remotes", "master", "feat", "origin",
                "HEAD", "undefined"}

Str(x) == IF x = None THEN <<"undefined">> ELSE x

Contents == {<<"txt", n>> : n \in 1..MaxContent}

Blob(c) == <<"blob", c>>
Tree(toc) == <<"tree", toc>>

EmptyToc == [p \in Paths |-> None]
EmptyIndex == [p \in Paths |-> [s \in Stages |-> None]]

IsObject(x) == Len(x) >= 1 /\ x[1] \in {"blob", "tree", "commit"}

---------------------------------------------------------------------------
(* refs (src/refs.js).  r is a repository: r.refs maps the name of each    *)
(* ref file that exists (HEAD, MERGE_HEAD, FETCH_HEAD, a local head, a    *)
(* remote-tracking ref) to its content.                                    *)

\* isRef that takes MERGE_MSG for a ref as well
isRefAlsoMergeMsg(ref) ==
    /\ ref # None
    /\ \/ Len(ref) = 3 /\ ref[1] = "refs" /\ ref[2] = "heads"
          /\ ref[3] \in LetterWords
       \/ Len(ref) = 4 /\ ref[1] = "refs" /\ ref[2] = "remotes"
          /\ ref[3] \in LetterWords /\ ref[4] \in LetterWords
       \/ ref \in {<<"HEAD">>, <<"FETCH_HEAD">>, <<"MERGE_HEAD">>, <<"MERGE_MSG">>}

isRef(ref) ==
    /\ ref # None
    /\ \/ Len(ref) = 3 /\ ref[1] = "refs" /\ ref[2] = "heads"
          /\ ref[3] \in LetterWords
       \/ Len(ref) = 4 /\ ref[1] = "refs" /\ ref[2] = "remotes"
          /\ ref[3] \in LetterWords /\ ref[4] \in LetterWords
       \/ ref \in {<<"HEAD">>, <<"FETCH_HEAD">>, <<"MERGE_HEAD">>}

\* the content of HEAD is "ref: <ref>" (<<"ref:">> \o ref) or a hash
isHeadDetached(r) ==
    LET c == r.refs[<<"HEAD">>] IN
    ~(c[1] = "ref:" /\ \E i \in 2..Len(c) : c[i] = "refs")

toLocalRef(name) == <<"refs", "heads">> \o Str(name)

toRemoteRef(remote, name) == <<"refs", "remotes">> \o Str(remote) \o Str(name)

\* the text after the first "refs/heads/" of HEAD
headBranchName(r) ==
    IF ~isHeadDetached(r)
    THEN SubSeq(r.refs[<<"HEAD">>], 4, Len(r.refs[<<"HEAD">>]))
    ELSE None

terminalRef(r, ref) ==
    IF ref = <<"HEAD">> /\ ~isHeadDetached(r)
    THEN Tail(r.refs[<<"HEAD">>])
    ELSE IF isRef(ref) THEN ref
    ELSE toLocalRef(ref)

refsExists(r, ref) == isRef(ref) /\ ref \in DOMAIN r.refs

\* FETCH_HEAD holds lines <<hash, branch, url>>; the first line naming branchName
fetchHeadBranchToMerge(r, branchName) ==
    LET ls == IF <<"FETCH_HEAD">> \in DOMAIN r.refs
              THEN r.refs[<<"FETCH_HEAD">>] ELSE <<>>
        hit == {i \in 1..Len(ls) : ls[i][2] = Str(branchName)}
    IN IF hit = {} THEN None
       ELSE ls[CHOOSE i \in hit : \A j \in hit : i <= j][1]

objectsExists(r, h) == h # None /\ h \in r.objects

hash(r, refOrHash) ==
    IF objectsExists(r, refOrHash) THEN refOrHash
    ELSE LET t == terminalRef(r, refOrHash) IN
         IF t = <<"FETCH_HEAD">>
         THEN fetchHeadBranchToMerge(r, headBranchName(r))
         ELSE IF refsExists(r, t) THEN r.refs[t]
         ELSE None

\* isCheckedOut with the test of the bare flag inverted
isCheckedOutWhenBare(r, branch) == r.bare /\ headBranchName(r) = branch

isCheckedOut(r, branch) == ~r.bare /\ headBranchName(r) = branch

refsWrite(r, ref, content) ==
    IF isRef(ref) THEN [r EXCEPT !.refs = (ref :> content) @@ r.refs] ELSE r

refsRm(r, ref) ==
    IF isRef(ref)
    THEN [r EXCEPT !.refs = [x \in (DOMAIN r.refs) \ {ref} |-> r.refs[x]]]
    ELSE r

isMergeInProgress(r) == hash(r, <<"MERGE_HEAD">>) # None

commitParentHashes(r) ==
    LET headHash == hash(r, <<"HEAD">>) IN
    IF isMergeInProgress(r) THEN <<headHash, hash(r, <<"MERGE_HEAD">>)>>
    ELSE IF headHash = None THEN <<>>
    ELSE <<headHash>>

---------------------------------------------------------------------------
(* objects: the content-addressed store.  r.objects is the set of stored   *)
(* objects; a blob is <<"blob", content>>, a tree <<"tree", toc>> with toc *)
(* mapping every path to a blob hash or None, a commit                     *)
(* <<"commit", tree hash, parent hashes, message>>.                        *)

objectsWrite(r, o) == [r EXCEPT !.objects = @ \cup {o}]

objectsRead(r, h) == IF objectsExists(r, h) THEN h ELSE None

objectsType(o) == IF o = None THEN "none" ELSE o[1]

Commit(treeHash, message, parentHashes) ==
    <<"commit", treeHash, parentHashes, message>>

treeHash(o) == IF objectsType(o) = "commit" THEN o[2] ELSE None

parentHashes(o) == IF objectsType(o) = "commit" THEN o[3] ELSE <<>>

commitMessage(o) == IF objectsType(o) = "commit" THEN o[4] ELSE None

\* the flat path -> blob hash mapping of the tree a commit references
commitToc(r, h) ==
    LET t == objectsRead(r, treeHash(objectsRead(r, h))) IN
    IF objectsType(t) = "tree" THEN t[2] ELSE EmptyToc

RECURSIVE ancestors(_, _)
ancestors(r, h) ==
    LET ps == parentHashes(objectsRead(r, h)) IN
    UNION {{ps[i]} \cup ancestors(r, ps[i]) : i \in 1..Len(ps)}

isAncestor(r, a, b) == a \in ancestors(r, b)

isUpToDate(r, receiverHash, giverHash) ==
    \/ giverHash = None
    \/ receiverHash = giverHash
    \/ isAncestor(r, giverHash, receiverHash)

CommitsOf(r) == {o \in r.objects : o[1] = "commit"}

---------------------------------------------------------------------------
(* index: r.index maps every path to its four stages, each a blob hash or  *)
(* None.                                                                   *)

toc(r) == [p \in Paths |-> r.index[p][0]]

hasFile(r, path, stage) == r.index[path][stage] # None

isFileInConflict(r, path) == \E s \in 1..3 : r.index[path][s] # None

conflictedPaths(r) == {p \in Paths : isFileInConflict(r, p)}

writeNonConflict(r, path, content) ==
    [objectsWrite(r, Blob(content)) EXCEPT
        !.index[path] = [s \in Stages |-> IF s = 0 THEN Blob(content) ELSE None]]

writeRm(r, path) == [r EXCEPT !.index[path] = [s \in Stages |-> None]]

writeConflict(r, path, baseHash, oursHash, theirsHash) ==
    [r EXCEPT !.index[path] =
        [s \in Stages |-> CASE s = 0 -> None
                            [] s = 1 -> baseHash
                            [] s = 2 -> oursHash
                            [] s = 3 -> theirsHash]]

tocToIndex(t) == [p \in Paths |-> [s \in Stages |-> IF s = 0 THEN t[p] ELSE None]]

workingCopyToc(r) ==
    [p \in Paths |-> IF r.wc[p] = None THEN None ELSE Blob(r.wc[p])]

---------------------------------------------------------------------------
(* diff: a diff maps each path to a status and to the blob it ends with.   *)

fileStatus(left, right) ==
    CASE left = right -> "same"
      [] left = None -> "add"
      [] right = None -> "delete"
      [] OTHER -> "modify"

tocDiff(left, right) ==
    [p \in Paths |-> [status |-> fileStatus(left[p], right[p]),
                      receiver |-> left[p], base |-> left[p], giver |-> right[p],
                      result |-> right[p]]]

diff(r, hash1, hash2) ==
    tocDiff(IF hash1 = None THEN toc(r) ELSE commitToc(r, hash1),
            IF hash2 = None THEN workingCopyToc(r) ELSE commitToc(r, hash2))

nameStatus(d) == {p \in Paths : d[p].status # "same"}

changedFilesCommitWouldOverwrite(r, h) ==
    LET headHash == hash(r, <<"HEAD">>) IN
    nameStatus(diff(r, headHash, None)) \cap nameStatus(diff(r, headHash, h))

addedOrModifiedFiles(r) ==
    {p \in Paths : r.wc[p] # None /\ Blob(r.wc[p]) # r.index[p][0]}

---------------------------------------------------------------------------
(* workingCopy: r.wc maps every path to the content of the file on disk or *)
(* None.                                                                   *)

blobContent(h) == h[2]

conflictFile(receiverHash, giverHash) ==
    <<"conflict", IF receiverHash = None THEN None ELSE blobContent(receiverHash),
                  IF giverHash = None THEN None ELSE blobContent(giverHash)>>

workingCopyWrite(r, d) ==
    [r EXCEPT !.wc =
        [p \in Paths |->
            CASE d[p].status = "same" -> r.wc[p]
              [] d[p].status = "conflict" -> conflictFile(d[p].receiver, d[p].giver)
              [] d[p].status = "delete" -> None
              [] OTHER -> blobContent(d[p].result)]]

---------------------------------------------------------------------------
(* merge: the merge engine.                                                *)

canFastForward(r, receiverHash, giverHash) ==
    receiverHash = None \/ isAncestor(r, receiverHash, giverHash)

isAForceFetch(r, receiverHash, giverHash) ==
    receiverHash # None /\ ~isAncestor(r, receiverHash, giverHash)

\* the commits commonAncestor may return: the common ancestors that are not
\* a proper ancestor of another common ancestor ({None} when there is none)
commonAncestors(r, aHash, bHash) ==
    LET both == (ancestors(r, aHash) \cup {aHash}) \cap
                (ancestors(r, bHash) \cup {bHash})
        best == {c \in both : \A d \in both : c \notin ancestors(r, d)}
    IN IF best = {} THEN {None} ELSE best

mergeStatus(receiver, giver, base) ==
    CASE receiver = giver -> "same"
      [] giver = base -> "same"
      [] receiver = base -> fileStatus(receiver, giver)
      [] OTHER -> "conflict"

mergeDiff(r, receiverHash, giverHash, baseHash) ==
    LET rt == commitToc(r, receiverHash)
        gt == commitToc(r, giverHash)
        bt == commitToc(r, baseHash)
    IN [p \in Paths |->
          LET st == mergeStatus(rt[p], gt[p], bt[p]) IN
          [status |-> st, receiver |-> rt[p], base |-> bt[p], giver |-> gt[p],
           result |-> IF st = "same" THEN rt[p] ELSE gt[p]]]

mergeConflicts(d) == {p \in Paths : d[p].status = "conflict"}

hasConflicts(r, receiverHash, giverHash, baseHash) ==
    mergeConflicts(mergeDiff(r, receiverHash, giverHash, baseHash)) # {}

\* the TOC a conflict-free three-way merge ends with
mergedToc(d) == [p \in Paths |-> d[p].result]

mergeMsg(r, d, ref) ==
    <<"Merge", Str(ref), "into", headBranchName(r), mergeConflicts(d)>>

writeMergeMsg(r, d, ref) == [r EXCEPT !.MERGE_MSG = mergeMsg(r, d, ref)]

mergeWriteIndex(r, d) ==
    [r EXCEPT !.index =
        [p \in Paths |->
            IF d[p].status = "conflict"
            THEN [s \in Stages |-> CASE s = 0 -> None
                                     [] s = 1 -> d[p].base
                                     [] s = 2 -> d[p].receiver
                                     [] s = 3 -> d[p].giver]
            ELSE [s \in Stages |-> IF s = 0 THEN d[p].result ELSE None]]]

\* the states a fast-forward merge passes through: ref, index, working copy
writeFastForwardMergeSteps(r, receiverHash, giverHash) ==
    LET r1 == refsWrite(r, toLocalRef(headBranchName(r)), giverHash)
        r2 == [r1 EXCEPT !.index = tocToIndex(commitToc(r1, giverHash))]
        r3 == IF r2.bare THEN r2
              ELSE workingCopyWrite(r2,
                     tocDiff(IF receiverHash = None THEN EmptyToc
                             ELSE commitToc(r2, receiverHash),
                             commitToc(r2, giverHash)))
    IN <<r1, r2, r3>>

\* the states a non-fast-forward merge passes through: MERGE_HEAD, MERGE_MSG,
\* index, working copy
writeNonFastForwardMergeSteps(r, receiverHash, giverHash, ref, baseHash) ==
    LET d == mergeDiff(r, receiverHash, giverHash, baseHash)
        r1 == refsWrite(r, <<"MERGE_HEAD">>, giverHash)
        r2 == writeMergeMsg(r1, d, ref)
        r3 == mergeWriteIndex(r2, d)
        r4 == IF r3.bare THEN r3 ELSE workingCopyWrite(r3, d)
    IN <<r1, r2, r3, r4>>

---------------------------------------------------------------------------
(* The commands (src/version/index.js).  A command run in repository r     *)
(* yields [r: the repository it leaves, ok: whether it returned rather     *)
(* than threw, msg: what it returned or threw, mid: the repository after   *)
(* each of its writes, in order].                                          *)

Res(r, ok, msg, mid) == [r |-> r, ok |-> ok, msg |-> msg, mid |-> mid]

NoRepo ==
    [inRepo |-> FALSE, bare |-> FALSE, remote |-> None, refs |-> None,
     MERGE_MSG |-> None, objects |-> {}, index |-> EmptyIndex, wc |-> EmptyToc]

init(r, bare) ==
    IF r.inRepo THEN Res(r, TRUE, "", <<>>)
    ELSE LET r1 == [r EXCEPT !.inRepo = TRUE, !.bare = bare,
                             !.refs = (<<"HEAD">> :> <<"ref:", "refs", "heads", "master">>)]
         IN Res(r1, TRUE, "", <<r1>>)

\* update_ref without its test that the object is a commit
update_refAnyObject(r, refToUpdate, refToUpdateTo) ==
    LET h == hash(r, refToUpdateTo) IN
    IF ~r.inRepo THEN Res(r, FALSE, "not a repository", <<>>)
    ELSE IF ~objectsExists(r, h) THEN Res(r, FALSE, "not a valid SHA1", <<>>)
    ELSE IF ~isRef(refToUpdate) THEN Res(r, FALSE, "cannot lock the ref", <<>>)
    ELSE Res(refsWrite(r, terminalRef(r, refToUpdate), h), TRUE, "",
             <<refsWrite(r, terminalRef(r, refToUpdate), h)>>)

update_ref(r, refToUpdate, refToUpdateTo) ==
    LET h == hash(r, refToUpdateTo) IN
    IF ~r.inRepo THEN Res(r, FALSE, "not a repository", <<>>)
    ELSE IF ~objectsExists(r, h) THEN Res(r, FALSE, "not a valid SHA1", <<>>)
    ELSE IF ~isRef(refToUpdate) THEN Res(r, FALSE, "cannot lock the ref", <<>>)
    ELSE IF objectsType(objectsRead(r, h)) # "commit"
         THEN Res(r, FALSE, "cannot refer to non-commit object", <<>>)
    ELSE LET r1 == refsWrite(r, terminalRef(r, refToUpdate), h)
         IN Res(r1, TRUE, "", <<r1>>)

\* the one directory of the model: the root of the working copy
IsDirectory(path) == path = "."

\* update_index whose remove option drops the entry of a file still on disk
update_indexRemoveOnDisk(r, path, optAdd, optRemove) ==
    LET isOnDisk == IsDirectory(path) \/ r.wc[path] # None
        isInIndex == ~IsDirectory(path) /\ hasFile(r, path, 0)
    IN
    IF ~r.inRepo THEN Res(r, FALSE, "not a repository", <<>>)
    ELSE IF r.bare THEN Res(r, FALSE, "this operation must be run in a work tree", <<>>)
    ELSE IF isOnDisk /\ IsDirectory(path)
         THEN Res(r, FALSE, "is a directory - add files inside", <<>>)
    ELSE IF optRemove /\ isInIndex
         THEN IF isFileInConflict(r, path) THEN Res(r, FALSE, "unsupported", <<>>)
              ELSE Res(writeRm(r, path), TRUE, "", <<writeRm(r, path)>>)
    ELSE IF optRemove /\ ~isOnDisk /\ ~isInIndex THEN Res(r, TRUE, "", <<>>)
    ELSE IF ~optAdd /\ isOnDisk /\ ~isInIndex
         THEN Res(r, FALSE, "cannot add to index - use --add option", <<>>)
    ELSE IF isOnDisk /\ (optAdd \/ isInIndex)
         THEN Res(writeNonConflict(r, path, r.wc[path]), TRUE, "",
                  <<writeNonConflict(r, path, r.wc[path])>>)
    ELSE Res(r, FALSE, "does not exist and --remove not passed", <<>>)

\* update_index that writes stage 0 of a path and keeps its stages 1, 2, 3
update_indexBesideConflict(r, path, optAdd, optRemove) ==
    LET isOnDisk == IsDirectory(path) \/ r.wc[path] # None
        isInIndex == ~IsDirectory(path) /\ hasFile(r, path, 0)
    IN
    IF ~r.inRepo THEN Res(r, FALSE, "not a repository", <<>>)
    ELSE IF r.bare THEN Res(r, FALSE, "this operation must be run in a work tree", <<>>)
    ELSE IF isOnDisk /\ IsDirectory(path)
         THEN Res(r, FALSE, "is a directory - add files inside", <<>>)
    ELSE IF optRemove /\ ~isOnDisk /\ isInIndex
         THEN IF isFileInConflict(r, path) THEN Res(r, FALSE, "unsupported", <<>>)
              ELSE Res(writeRm(r, path), TRUE, "", <<writeRm(r, path)>>)
    ELSE IF optRemove /\ ~isOnDisk /\ ~isInIndex THEN Res(r, TRUE, "", <<>>)
    ELSE IF ~optAdd /\ isOnDisk /\ ~isInIndex
         THEN Res(r, FALSE, "cannot add to index - use --add option", <<>>)
    ELSE IF isOnDisk /\ (optAdd \/ isInIndex)
         THEN LET r1 == [objectsWrite(r, Blob(r.wc[path])) EXCEPT
                             !.index[path][0] = Blob(r.wc[path])]
              IN Res(r1, TRUE, "", <<r1>>)
    ELSE Res(r, FALSE, "does not exist and --remove not passed", <<>>)

update_index(r, path, optAdd, optRemove) ==
    LET isOnDisk == IsDirectory(path) \/ r.wc[path] # None
        isInIndex == ~IsDirectory(path) /\ hasFile(r, path, 0)
    IN
    IF ~r.inRepo THEN Res(r, FALSE, "not a repository", <<>>)
    ELSE IF r.bare THEN Res(r, FALSE, "this operation must be run in a work tree", <<>>)
    ELSE IF isOnDisk /\ IsDirectory(path)
         THEN Res(r, FALSE, "is a directory - add files inside", <<>>)
    ELSE IF optRemove /\ ~isOnDisk /\ isInIndex
         THEN IF isFileInConflict(r, path) THEN Res(r, FALSE, "unsupported", <<>>)
              ELSE Res(writeRm(r, path), TRUE, "", <<writeRm(r, path)>>)
    ELSE IF optRemove /\ ~isOnDisk /\ ~isInIndex THEN Res(r, TRUE, "", <<>>)
    ELSE IF ~optAdd /\ isOnDisk /\ ~isInIndex
         THEN Res(r, FALSE, "cannot add to index - use --add option", <<>>)
    ELSE IF isOnDisk /\ (optAdd \/ isInIndex)
         THEN Res(writeNonConflict(r, path, r.wc[path]), TRUE, "",
                  <<writeNonConflict(r, path, r.wc[path])>>)
    ELSE Res(r, FALSE, "does not exist and --remove not passed", <<>>)

\* the files on disk that path names
lsRecursive(r, path) == {p \in {path} : r.wc[p] # None}

add(r, path) ==
    IF ~r.inRepo THEN Res(r, FALSE, "not a repository", <<>>)
    ELSE IF r.bare THEN Res(r, FALSE, "this operation must be run in a work tree", <<>>)
    ELSE IF lsRecursive(r, path) = {} THEN Res(r, FALSE, "did not match any files", <<>>)
    ELSE update_index(r, path, TRUE, FALSE)

\* the index paths, at any stage, that path names: the file itself, or every
\* file under the directory
matchingFiles(r, path) ==
    {p \in Paths : (IsDirectory(path) \/ p = path)
                     /\ \E s \in Stages : r.index[p][s] # None}

\* rm's unlink of file p when it is among filesToRm and on disk
rmUnlink(res, p, filesToRm) ==
    IF p \in filesToRm /\ res.r.wc[p] # None
    THEN LET r1 == [res.r EXCEPT !.wc[p] = None]
         IN Res(r1, res.ok, res.msg, res.mid \o <<r1>>)
    ELSE res

\* rm's update_index(p, {remove: true}) when p is among filesToRm
rmUpdateIndex(res, p, filesToRm) ==
    IF p \in filesToRm /\ res.ok
    THEN LET u == update_index(res.r, p, FALSE, TRUE)
         IN Res(u.r, u.ok, u.msg, res.mid \o u.mid)
    ELSE res

rm(r, path, optF, optR) ==
    IF ~r.inRepo THEN Res(r, FALSE, "not a repository", <<>>)
    ELSE IF r.bare THEN Res(r, FALSE, "this operation must be run in a work tree", <<>>)
    ELSE IF optF THEN Res(r, FALSE, "unsupported", <<>>)
    ELSE IF matchingFiles(r, path) = {} THEN Res(r, FALSE, "did not match any files", <<>>)
    ELSE IF IsDirectory(path) /\ ~optR
         THEN Res(r, FALSE, "not removing recursively without -r", <<>>)
    ELSE IF addedOrModifiedFiles(r) \cap matchingFiles(r, path) # {}
         THEN Res(r, FALSE, "these files have changes", <<>>)
    ELSE LET filesToRm == matchingFiles(r, path) IN
         rmUpdateIndex(
             rmUpdateIndex(
                 rmUnlink(rmUnlink(Res(r, TRUE, "", <<>>), "a", filesToRm),
                          "b", filesToRm),
                 "a", filesToRm),
             "b", filesToRm)

write_tree(r) == objectsWrite(r, Tree(toc(r)))

\* commit without its refusal of the paths left in conflict by a merge
commitOverConflicts(r, m) ==
    IF ~r.inRepo THEN Res(r, FALSE, "not a repository", <<>>)
    ELSE IF r.bare THEN Res(r, FALSE, "this operation must be run in a work tree", <<>>)
    ELSE
    LET r1 == write_tree(r)
        tree == Tree(toc(r))
    IN
    IF hash(r1, <<"HEAD">>) # None
       /\ tree = treeHash(objectsRead(r1, hash(r1, <<"HEAD">>)))
    THEN Res(r1, FALSE, "nothing to commit, working directory clean", <<r1>>)
    ELSE
    LET msg == IF isMergeInProgress(r1) THEN r1.MERGE_MSG ELSE m
        commitHash == Commit(tree, msg, commitParentHashes(r1))
        r2 == objectsWrite(r1, commitHash)
        u == update_ref(r2, <<"HEAD">>, commitHash)
    IN
    IF ~u.ok THEN Res(u.r, FALSE, u.msg, <<r1, r2>> \o u.mid)
    ELSE IF isMergeInProgress(u.r)
    THEN LET r4 == [u.r EXCEPT !.MERGE_MSG = None]
             r5 == refsRm(r4, <<"MERGE_HEAD">>)
         IN Res(r5, TRUE, "Merge made by the three-way strategy",
                <<r1, r2>> \o u.mid \o <<r4, r5>>)
    ELSE Res(u.r, TRUE, "committed", <<r1, r2>> \o u.mid)

commit(r, m) ==
    IF ~r.inRepo THEN Res(r, FALSE, "not a repository", <<>>)
    ELSE IF r.bare THEN Res(r, FALSE, "this operation must be run in a work tree", <<>>)
    ELSE
    LET r1 == write_tree(r)
        tree == Tree(toc(r))
    IN
    IF hash(r1, <<"HEAD">>) # None
       /\ tree = treeHash(objectsRead(r1, hash(r1, <<"HEAD">>)))
    THEN Res(r1, FALSE, "nothing to commit, working directory clean", <<r1>>)
    ELSE IF isMergeInProgress(r1) /\ conflictedPaths(r1) # {}
    THEN Res(r1, FALSE, "cannot commit because you have unmerged files", <<r1>>)
    ELSE
    LET msg == IF isMergeInProgress(r1) THEN r1.MERGE_MSG ELSE m
        commitHash == Commit(tree, msg, commitParentHashes(r1))
        r2 == objectsWrite(r1, commitHash)
        u == update_ref(r2, <<"HEAD">>, commitHash)
    IN
    IF ~u.ok THEN Res(u.r, FALSE, u.msg, <<r1, r2>> \o u.mid)
    ELSE IF isMergeInProgress(u.r)
    THEN LET r4 == [u.r EXCEPT !.MERGE_MSG = None]
             r5 == refsRm(r4, <<"MERGE_HEAD">>)
         IN Res(r5, TRUE, "Merge made by the three-way strategy",
                <<r1, r2>> \o u.mid \o <<r4, r5>>)
    ELSE Res(u.r, TRUE, "committed", <<r1, r2>> \o u.mid)

\* branch without its test that the branch exists already
branchOverExisting(r, name) ==
    IF ~r.inRepo THEN Res(r, FALSE, "not a repository", <<>>)
    ELSE IF hash(r, <<"HEAD">>) = None THEN Res(r, FALSE, "not a valid object name", <<>>)
    ELSE update_ref(r, toLocalRef(name), hash(r, <<"HEAD">>))

branch(r, name) ==
    IF ~r.inRepo THEN Res(r, FALSE, "not a repository", <<>>)
    ELSE IF hash(r, <<"HEAD">>) = None THEN Res(r, FALSE, "not a valid object name", <<>>)
    ELSE IF refsExists(r, toLocalRef(name))
         THEN Res(r, FALSE, "A branch named already exists", <<>>)
    ELSE update_ref(r, toLocalRef(name), hash(r, <<"HEAD">>))

\* checkout without its test for local changes
checkoutOverLocalChanges(r, ref) ==
    LET toHash == hash(r, ref) IN
    IF ~r.inRepo THEN Res(r, FALSE, "not a repository", <<>>)
    ELSE IF r.bare THEN Res(r, FALSE, "this operation must be run in a work tree", <<>>)
    ELSE IF ~objectsExists(r, toHash)
         THEN Res(r, FALSE, "did not match any file(s) known to Version", <<>>)
    ELSE IF objectsType(objectsRead(r, toHash)) # "commit"
         THEN Res(r, FALSE, "reference is not a tree", <<>>)
    ELSE IF ref = headBranchName(r) \/ ref = r.refs[<<"HEAD">>]
         THEN Res(r, TRUE, "Already on", <<>>)
    ELSE
    LET isDetachingHead == objectsExists(r, ref)
        r1 == workingCopyWrite(r, diff(r, hash(r, <<"HEAD">>), toHash))
        r2 == refsWrite(r1, <<"HEAD">>,
                        IF isDetachingHead THEN toHash
                        ELSE <<"ref:">> \o toLocalRef(ref))
        r3 == [r2 EXCEPT !.index = tocToIndex(commitToc(r2, toHash))]
    IN Res(r3, TRUE,
           IF isDetachingHead THEN "You are in detached HEAD state"
           ELSE "Switched to branch",
           <<r1, r2, r3>>)

checkout(r, ref) ==
    LET toHash == hash(r, ref) IN
    IF ~r.inRepo THEN Res(r, FALSE, "not a repository", <<>>)
    ELSE IF r.bare THEN Res(r, FALSE, "this operation must be run in a work tree", <<>>)
    ELSE IF ~objectsExists(r, toHash)
         THEN Res(r, FALSE, "did not match any file(s) known to Version", <<>>)
    ELSE IF objectsType(objectsRead(r, toHash)) # "commit"
         THEN Res(r, FALSE, "reference is not a tree", <<>>)
    ELSE IF ref = headBranchName(r) \/ ref = r.refs[<<"HEAD">>]
         THEN Res(r, TRUE, "Already on", <<>>)
    ELSE IF changedFilesCommitWouldOverwrite(r, toHash) # {}
         THEN Res(r, FALSE, "local changes would be lost", <<>>)
    ELSE
    LET isDetachingHead == objectsExists(r, ref)
        r1 == workingCopyWrite(r, diff(r, hash(r, <<"HEAD">>), toHash))
        r2 == refsWrite(r1, <<"HEAD">>,
                        IF isDetachingHead THEN toHash
                        ELSE <<"ref:">> \o toLocalRef(ref))
        r3 == [r2 EXCEPT !.index = tocToIndex(commitToc(r2, toHash))]
    IN Res(r3, TRUE,
           IF isDetachingHead THEN "You are in detached HEAD state"
           ELSE "Switched to branch",
           <<r1, r2, r3>>)

\* merge that commits whether or not the merge diff has conflicts
mergeThenCommit(r, ref, baseHash) ==
    LET receiverHash == hash(r, <<"HEAD">>)
        giverHash == hash(r, ref)
    IN
    IF ~r.inRepo THEN Res(r, FALSE, "not a repository", <<>>)
    ELSE IF r.bare THEN Res(r, FALSE, "this operation must be run in a work tree", <<>>)
    ELSE IF isHeadDetached(r) THEN Res(r, FALSE, "unsupported", <<>>)
    ELSE IF giverHash = None \/ objectsType(objectsRead(r, giverHash)) # "commit"
         THEN Res(r, FALSE, "expected commit type", <<>>)
    ELSE IF isUpToDate(r, receiverHash, giverHash)
         THEN Res(r, TRUE, "Already up-to-date", <<>>)
    ELSE IF changedFilesCommitWouldOverwrite(r, giverHash) # {}
         THEN Res(r, FALSE, "local changes would be lost", <<>>)
    ELSE IF canFastForward(r, receiverHash, giverHash)
         THEN LET ff == writeFastForwardMergeSteps(r, receiverHash, giverHash)
              IN Res(ff[Len(ff)], TRUE, "Fast-forward", ff)
    ELSE
    LET nf == writeNonFastForwardMergeSteps(r, receiverHash, giverHash, ref, baseHash)
        c == commit(nf[Len(nf)], None)
    IN Res(c.r, c.ok, c.msg, nf \o c.mid)

merge(r, ref, baseHash) ==
    LET receiverHash == hash(r, <<"HEAD">>)
        giverHash == hash(r, ref)
    IN
    IF ~r.inRepo THEN Res(r, FALSE, "not a repository", <<>>)
    ELSE IF r.bare THEN Res(r, FALSE, "this operation must be run in a work tree", <<>>)
    ELSE IF isHeadDetached(r) THEN Res(r, FALSE, "unsupported", <<>>)
    ELSE IF giverHash = None \/ objectsType(objectsRead(r, giverHash)) # "commit"
         THEN Res(r, FALSE, "expected commit type", <<>>)
    ELSE IF isUpToDate(r, receiverHash, giverHash)
         THEN Res(r, TRUE, "Already up-to-date", <<>>)
    ELSE IF changedFilesCommitWouldOverwrite(r, giverHash) # {}
         THEN Res(r, FALSE, "local changes would be lost", <<>>)
    ELSE IF canFastForward(r, receiverHash, giverHash)
         THEN LET ff == writeFastForwardMergeSteps(r, receiverHash, giverHash)
              IN Res(ff[Len(ff)], TRUE, "Fast-forward", ff)
    ELSE
    LET nf == writeNonFastForwardMergeSteps(r, receiverHash, giverHash, ref, baseHash)
        r4 == nf[Len(nf)]
    IN
    IF hasConflicts(r4, receiverHash, giverHash, baseHash)
    THEN Res(r4, TRUE, "Automatic merge failed. Fix conflicts and commit the result.", nf)
    ELSE LET c == commit(r4, None)
         IN Res(c.r, c.ok, c.msg, nf \o c.mid)

---------------------------------------------------------------------------
(* The commands that reach a peer.  w maps each repository path to the     *)
(* repository there; me is the path the command runs in (the working       *)
(* directory), and a remote's url is a repository path.  They yield        *)
(* [w, ok, msg, mid], mid being the worlds after each write.               *)

WRes(w, ok, msg, mid) == [w |-> w, ok |-> ok, msg |-> msg, mid |-> mid]

\* a command of repository me, as a command of the world
Local(w, me, res) ==
    WRes([w EXCEPT ![me] = res.r], res.ok, res.msg,
         [i \in 1..Len(res.mid) |-> [w EXCEPT ![me] = res.mid[i]]])

remote(r, command, name, path) ==
    IF ~r.inRepo THEN Res(r, FALSE, "not a repository", <<>>)
    ELSE IF command # "add" THEN Res(r, FALSE, "unsupported", <<>>)
    ELSE IF name \in DOMAIN r.remote THEN Res(r, FALSE, "remote already exists", <<>>)
    ELSE LET r1 == [r EXCEPT !.remote = (name :> path) @@ r.remote]
         IN Res(r1, TRUE, "", <<r1>>)

\* every object of store from copied into r (one objects.write per object)
copyObjects(r, from) == [r EXCEPT !.objects = @ \cup from.objects]

\* fetch that leaves the remote-tracking ref alone when its old value is not
\* an ancestor of the new one
fetchUnlessForced(w, me, remoteName, branchName) ==
    LET r == w[me] IN
    IF ~r.inRepo THEN WRes(w, FALSE, "not a repository", <<>>)
    ELSE IF remoteName \notin DOMAIN r.remote
         THEN WRes(w, FALSE, "does not appear to be a git repository", <<>>)
    ELSE
    LET remoteUrl == r.remote[remoteName]
        peer == w[remoteUrl]
        remoteRef == toRemoteRef(remoteName, branchName)
    IN
    IF ~peer.inRepo THEN WRes(w, FALSE, "not a repository", <<>>)
    ELSE
    LET newHash == hash(peer, branchName) IN
    IF newHash = None THEN WRes(w, FALSE, "couldn't find remote ref", <<>>)
    ELSE
    LET r1 == copyObjects(r, peer)
        u == IF isAForceFetch(r1, hash(r, remoteRef), newHash)
             THEN Res(r1, TRUE, "", <<>>)
             ELSE update_ref(r1, remoteRef, newHash)
        r3 == refsWrite(u.r, <<"FETCH_HEAD">>, << <<newHash, Str(branchName), remoteUrl>> >>)
    IN
    IF ~u.ok THEN Local(w, me, Res(u.r, FALSE, u.msg, <<r1>> \o u.mid))
    ELSE Local(w, me, Res(r3, TRUE, "fetched", <<r1>> \o u.mid \o <<r3>>))

fetch(w, me, remoteName, branchName) ==
    LET r == w[me] IN
    IF ~r.inRepo THEN WRes(w, FALSE, "not a repository", <<>>)
    ELSE IF remoteName \notin DOMAIN r.remote
         THEN WRes(w, FALSE, "does not appear to be a git repository", <<>>)
    ELSE
    LET remoteUrl == r.remote[remoteName]
        peer == w[remoteUrl]
        remoteRef == toRemoteRef(remoteName, branchName)
    IN
    IF ~peer.inRepo THEN WRes(w, FALSE, "not a repository", <<>>)
    ELSE
    LET newHash == hash(peer, branchName) IN
    IF newHash = None THEN WRes(w, FALSE, "couldn't find remote ref", <<>>)
    ELSE
    LET r1 == copyObjects(r, peer)
        u == update_ref(r1, remoteRef, newHash)
        r3 == refsWrite(u.r, <<"FETCH_HEAD">>, << <<newHash, Str(branchName), remoteUrl>> >>)
    IN
    IF ~u.ok THEN Local(w, me, Res(u.r, FALSE, u.msg, <<r1>> \o u.mid))
    ELSE Local(w, me, Res(r3, TRUE, "fetched", <<r1>> \o u.mid \o <<r3>>))

\* pull's last step: the merge of FETCH_HEAD in the world f its fetch left
pullMerge(f, m) == WRes(m.w, m.ok, m.msg, f.mid \o m.mid)

pullFetched(f, me, baseHash) ==
    IF ~f.ok THEN f
    ELSE pullMerge(f, Local(f.w, me, merge(f.w[me], <<"FETCH_HEAD">>, baseHash)))

pull(w, me, remoteName, branchName, baseHash) ==
    IF ~w[me].inRepo THEN WRes(w, FALSE, "not a repository", <<>>)
    ELSE IF w[me].bare
         THEN WRes(w, FALSE, "this operation must be run in a work tree", <<>>)
    ELSE pullFetched(fetch(w, me, remoteName, branchName), me, baseHash)

\* push without its test that the peer's branch can be fast-forwarded
pushNonFastForward(w, me, remoteName, branchName, optF) ==
    LET r == w[me] IN
    IF ~r.inRepo THEN WRes(w, FALSE, "not a repository", <<>>)
    ELSE IF remoteName \notin DOMAIN r.remote
         THEN WRes(w, FALSE, "does not appear to be a git repository", <<>>)
    ELSE
    LET remotePath == r.remote[remoteName]
        peer == w[remotePath]
    IN
    IF ~peer.inRepo THEN WRes(w, FALSE, "not a repository", <<>>)
    ELSE IF isCheckedOut(peer, branchName)
         THEN WRes(w, FALSE, "refusing to update checked out branch", <<>>)
    ELSE
    LET receiverHash == hash(peer, branchName)
        giverHash == hash(r, branchName)
    IN
    IF isUpToDate(r, receiverHash, giverHash) THEN WRes(w, TRUE, "Already up-to-date", <<>>)
    ELSE
    LET w1 == [w EXCEPT ![remotePath] = copyObjects(peer, r)]
        u1 == Local(w1, remotePath,
                    update_ref(w1[remotePath], toLocalRef(branchName), giverHash))
        u2 == Local(u1.w, me,
                    update_ref(u1.w[me], toRemoteRef(remoteName, branchName), giverHash))
    IN
    IF ~u1.ok THEN WRes(u1.w, FALSE, u1.msg, <<w1>> \o u1.mid)
    ELSE IF ~u2.ok THEN WRes(u2.w, FALSE, u2.msg, <<w1>> \o u1.mid \o u2.mid)
    ELSE WRes(u2.w, TRUE, "pushed", <<w1>> \o u1.mid \o u2.mid)

push(w, me, remoteName, branchName, optF) ==
    LET r == w[me] IN
    IF ~r.inRepo THEN WRes(w, FALSE, "not a repository", <<>>)
    ELSE IF remoteName \notin DOMAIN r.remote
         THEN WRes(w, FALSE, "does not appear to be a git repository", <<>>)
    ELSE
    LET remotePath == r.remote[remoteName]
        peer == w[remotePath]
    IN
    IF ~peer.inRepo THEN WRes(w, FALSE, "not a repository", <<>>)
    ELSE IF isCheckedOut(peer, branchName)
         THEN WRes(w, FALSE, "refusing to update checked out branch", <<>>)
    ELSE
    LET receiverHash == hash(peer, branchName)
        giverHash == hash(r, branchName)
    IN
    IF isUpToDate(r, receiverHash, giverHash) THEN WRes(w, TRUE, "Already up-to-date", <<>>)
    ELSE IF ~optF /\ ~canFastForward(r, receiverHash, giverHash)
         THEN WRes(w, FALSE, "failed to push some refs", <<>>)
    ELSE
    LET w1 == [w EXCEPT ![remotePath] = copyObjects(peer, r)]
        u1 == Local(w1, remotePath,
                    update_ref(w1[remotePath], toLocalRef(branchName), giverHash))
        u2 == Local(u1.w, me,
                    update_ref(u1.w[me], toRemoteRef(remoteName, branchName), giverHash))
    IN
    IF ~u1.ok THEN WRes(u1.w, FALSE, u1.msg, <<w1>> \o u1.mid)
    ELSE IF ~u2.ok THEN WRes(u2.w, FALSE, u2.msg, <<w1>> \o u1.mid \o u2.mid)
    ELSE WRes(u2.w, TRUE, "pushed", <<w1>> \o u1.mid \o u2.mid)

\* a directory that exists holds something when it is a repository or has files
isEmptyDir(r) == ~r.inRepo /\ r.wc = EmptyToc

\* clone that fetches master of the remote and does not fast-forward to it
cloneFetchOnly(w, remotePath, targetPath, bare) ==
    IF ~w[remotePath].inRepo THEN WRes(w, FALSE, "repository does not exist", <<>>)
    ELSE IF ~isEmptyDir(w[targetPath])
         THEN WRes(w, FALSE, "already exists and is not empty", <<>>)
    ELSE
    LET i == Local(w, targetPath, init(w[targetPath], bare))
        a == Local(i.w, targetPath,
                   remote(i.w[targetPath], "add", <<"origin">>, remotePath))
        remoteHeadHash == hash(w[remotePath], <<"master">>)
    IN
    IF remoteHeadHash = None THEN WRes(a.w, TRUE, "Cloning into", i.mid \o a.mid)
    ELSE
    LET f == fetch(a.w, targetPath, <<"origin">>, <<"master">>) IN
    IF ~f.ok THEN WRes(f.w, FALSE, f.msg, i.mid \o a.mid \o f.mid)
    ELSE WRes(f.w, TRUE, "Cloning into", i.mid \o a.mid \o f.mid)

clone(w, remotePath, targetPath, bare) ==
    IF ~w[remotePath].inRepo THEN WRes(w, FALSE, "repository does not exist", <<>>)
    ELSE IF ~isEmptyDir(w[targetPath])
         THEN WRes(w, FALSE, "already exists and is not empty", <<>>)
    ELSE
    LET i == Local(w, targetPath, init(w[targetPath], bare))
        a == Local(i.w, targetPath,
                   remote(i.w[targetPath], "add", <<"origin">>, remotePath))
        remoteHeadHash == hash(w[remotePath], <<"master">>)
    IN
    IF remoteHeadHash = None THEN WRes(a.w, TRUE, "Cloning into", i.mid \o a.mid)
    ELSE
    LET f == fetch(a.w, targetPath, <<"origin">>, <<"master">>)
        ff == writeFastForwardMergeSteps(f.w[targetPath], None, remoteHeadHash)
    IN
    IF ~f.ok THEN WRes(f.w, FALSE, f.msg, i.mid \o a.mid \o f.mid)
    ELSE WRes([f.w EXCEPT ![targetPath] = ff[Len(ff)]], TRUE, "Cloning into",
              i.mid \o a.mid \o f.mid \o
              [k \in 1..Len(ff) |-> [f.w EXCEPT ![targetPath] = ff[k]]])

---------------------------------------------------------------------------
(* The state machine.  world is the file system: the repository at each    *)
(* path.  A command that throws before its first write leaves the world as *)
(* it found it.                                                            *)

Msgs == {<<"m">>}
\* the files the user writes: path a with every content, path b with the first
Edits == {<<"a", c>> : c \in Contents} \cup {<<"b", <<"txt", 1>>>>}
\* the files the users write in the runs with a peer and in those over the refs
SyncEdits == {<<"a", c>> : c \in Contents}
BranchNames == {<<"master">>, <<"feat">>}
RemoteNames == {<<"origin">>}

AllCommits(w) == UNION {CommitsOf(w[x]) : x \in Repos}

\* the merge bases merge(ref) may compute in r
MergeBases(r, ref) ==
    IF r.inRepo THEN commonAncestors(r, hash(r, <<"HEAD">>), hash(r, ref)) ELSE {None}

\* a command's effect on the state, offered while the stores stay within max commits
Effect(res, max) ==
    /\ Cardinality(AllCommits(res.w)) <= max
    /\ world' = res.w

Init == world = [x \in Repos |-> NoRepo]

\* the user writes content c to file p of the working copy
WriteFile(me, p, c) ==
    /\ world[me].inRepo /\ ~world[me].bare
    /\ world[me].wc[p] # c
    /\ world' = [world EXCEPT ![me].wc[p] = c]

DoInit(me, bare) ==
    ~world[me].inRepo /\ Effect(Local(world, me, init(world[me], bare)), MaxCommits)

DoRemote(me, name, path) ==
    Effect(Local(world, me, remote(world[me], "add", name, path)), MaxCommits)

DoFetch(me, name, b, max) == Effect(fetch(world, me, name, b), max)

\* the merge bases pull may compute: those of the merge that follows its fetch
PullBases(w, me, name, b) ==
    IF fetch(w, me, name, b).ok
    THEN MergeBases(fetch(w, me, name, b).w[me], <<"FETCH_HEAD">>)
    ELSE {None}

DoPull(me, name, b, base, max) == Effect(pull(world, me, name, b, base), max)

DoPush(me, name, b, f, max) == Effect(push(world, me, name, b, f), max)

DoClone(remotePath, targetPath, bare, max) ==
    Effect(clone(world, remotePath, targetPath, bare), max)

DoAdd(me, p, max) == Effect(Local(world, me, add(world[me], p)), max)

DoRm(me, p, max) == Effect(Local(world, me, rm(world[me], p, FALSE, FALSE)), max)

DoCommit(me, m, max) == Effect(Local(world, me, commit(world[me], m)), max)

DoBranch(me, name, max) == Effect(Local(world, me, branch(world[me], name)), max)

DoCheckout(me, ref, max) == Effect(Local(world, me, checkout(world[me], ref)), max)

DoMerge(me, ref, base, max) ==
    Effect(Local(world, me, merge(world[me], ref, base)), max)

DoUpdateRef(me, refToUpdate, refToUpdateTo, max) ==
    Effect(Local(world, me, update_ref(world[me], refToUpdate, refToUpdateTo)), max)

DoUpdateIndex(me, p, optAdd, optRemove, max) ==
    Effect(Local(world, me, update_index(world[me], p, optAdd, optRemove)), max)

\* the user deletes file p of the working copy
DeleteFile(me, p) ==
    /\ world[me].inRepo /\ ~world[me].bare
    /\ world[me].wc[p] # None
    /\ world' = [world EXCEPT ![me].wc[p] = None]

(* Spec: one repository, two branches merged into one another.             *)

Next ==
    \/ DoInit("L", FALSE)
    \/ \E e \in Edits : WriteFile("L", e[1], e[2])
    \/ \E p \in Paths : DoAdd("L", p, MaxCommits)
    \/ \E p \in Paths : DoRm("L", p, MaxCommits)
    \/ \E m \in Msgs : DoCommit("L", m, MaxCommits)
    \/ DoBranch("L", <<"feat">>, MaxCommits)
    \/ \E ref \in BranchNames : DoCheckout("L", ref, MaxCommits)
    \/ \E ref \in BranchNames :
         \E base \in MergeBases(world["L"], ref) : DoMerge("L", ref, base, MaxCommits)

Spec == Init /\ [][Next]_vars

(* SpecSync: repository L and its peer P, the remote "origin" of L.        *)

\* what the user points a ref at with update_ref: a ref, or any stored object
UpdateRefTargets(r) == {<<"HEAD">>} \cup r.objects

NextSync ==
    \/ \E bare \in BOOLEAN : DoInit("P", bare)
    \/ DoInit("L", FALSE)
    \/ DoClone("P", "L", FALSE, MaxSyncCommits)
    \/ DoRemote("L", <<"origin">>, "P")
    \/ \E me \in Repos, e \in SyncEdits : WriteFile(me, e[1], e[2])
    \/ \E me \in Repos : DoAdd(me, "a", MaxSyncCommits)
    \/ \E me \in Repos, m \in Msgs : DoCommit(me, m, MaxSyncCommits)
    \/ DoBranch("P", <<"feat">>, MaxSyncCommits)
    \/ \E ref \in BranchNames : DoCheckout("P", ref, MaxSyncCommits)
    \/ DoFetch("L", <<"origin">>, <<"master">>, MaxSyncCommits)
    \/ \E f \in BOOLEAN : DoPush("L", <<"origin">>, <<"master">>, f, MaxSyncCommits)
    \/ \E base \in MergeBases(world["L"], <<"FETCH_HEAD">>) :
         DoMerge("L", <<"FETCH_HEAD">>, base, MaxSyncCommits)
    \/ \E to \in UpdateRefTargets(world["L"]) :
         DoUpdateRef("L", <<"refs", "heads", "feat">>, to, MaxSyncCommits)

SpecSync == Init /\ [][NextSync]_vars

(* SpecPull: repository L fetches and pulls the branches of its peer P,    *)
(* whose user may point master at any commit of its store.                 *)

NextPull ==
    \/ \E bare \in BOOLEAN : DoInit("P", bare)
    \/ DoInit("L", FALSE)
    \/ DoRemote("L", <<"origin">>, "P")
    \/ \E me \in Repos, e \in SyncEdits : WriteFile(me, e[1], e[2])
    \/ \E me \in Repos : DoAdd(me, "a", MaxSyncCommits)
    \/ \E me \in Repos, m \in Msgs : DoCommit(me, m, MaxSyncCommits)
    \/ DoBranch("P", <<"feat">>, MaxSyncCommits)
    \/ \E to \in CommitsOf(world["P"]) :
         DoUpdateRef("P", <<"refs", "heads", "master">>, to, MaxSyncCommits)
    \/ \E b \in BranchNames : DoFetch("L", <<"origin">>, b, MaxSyncCommits)
    \/ \E b \in BranchNames :
         \E base \in PullBases(world, "L", <<"origin">>, b) :
             DoPull("L", <<"origin">>, b, base, MaxSyncCommits)

SpecPull == Init /\ [][NextPull]_vars

(* SpecIndex: the commands that write the index, in a repository L that    *)
(* pulls from its peer P; merge runs as the second step of pull.           *)

NextIndex ==
    \/ DoInit("P", FALSE)
    \/ DoInit("L", FALSE)
    \/ DoRemote("L", <<"origin">>, "P")
    \/ \E me \in Repos, e \in SyncEdits : WriteFile(me, e[1], e[2])
    \/ DeleteFile("L", "a")
    \/ \E optAdd \in BOOLEAN, optRemove \in BOOLEAN :
         DoUpdateIndex("L", "a", optAdd, optRemove, MaxSyncCommits)
    \/ \E me \in Repos : DoAdd(me, "a", MaxSyncCommits)
    \/ DoRm("L", "a", MaxSyncCommits)
    \/ \E me \in Repos, m \in Msgs : DoCommit(me, m, MaxSyncCommits)
    \/ DoBranch("L", <<"feat">>, MaxSyncCommits)
    \/ \E ref \in BranchNames : DoCheckout("L", ref, MaxSyncCommits)
    \/ \E base \in PullBases(world, "L", <<"origin">>, <<"master">>) :
         DoPull("L", <<"origin">>, <<"master">>, base, MaxSyncCommits)

SpecIndex == Init /\ [][NextIndex]_vars

(* SpecRefs: one repository, every form of ref that checkout accepts.      *)

\* the refs the user checks out: branch names, a qualified ref, HEAD, a hash
CheckoutRefs(r) ==
    BranchNames \cup {<<"refs", "heads", "master">>, <<"HEAD">>} \cup CommitsOf(r)

NextRefs ==
    \/ DoInit("L", FALSE)
    \/ \E e \in SyncEdits : WriteFile("L", e[1], e[2])
    \/ DoAdd("L", "a", MaxRefsCommits)
    \/ \E m \in Msgs : DoCommit("L", m, MaxRefsCommits)
    \/ DoBranch("L", <<"feat">>, MaxRefsCommits)
    \/ \E ref \in CheckoutRefs(world["L"]) : DoCheckout("L", ref, MaxRefsCommits)
    \/ \E ref \in BranchNames :
         \E base \in MergeBases(world["L"], ref) : DoMerge("L", ref, base, MaxRefsCommits)

SpecRefs == Init /\ [][NextRefs]_vars

---------------------------------------------------------------------------
(* The refs hold commits.                                                  *)

IsBranchRef(ref) ==
    \/ Len(ref) = 3 /\ ref[1] = "refs" /\ ref[2] = "heads"
    \/ Len(ref) = 4 /\ ref[1] = "refs" /\ ref[2] = "remotes"

\* every local head, remote-tracking ref, detached HEAD and MERGE_HEAD of r
\* holds the hash of a commit of r's store
RefsPointAtCommits(r) ==
    r.inRepo =>
        \A ref \in DOMAIN r.refs :
            (IsBranchRef(ref) \/ ref = <<"MERGE_HEAD">>
                \/ (ref = <<"HEAD">> /\ isHeadDetached(r)))
            => r.refs[ref] \in CommitsOf(r)

WorldRefsValid(w) == \A x \in Repos : RefsPointAtCommits(w[x])

\* the same after each write of the command that yields res
MidValid(res) == \A i \in 1..Len(res.mid) : WorldRefsValid(res.mid[i])

MergeRefs == BranchNames \cup {<<"FETCH_HEAD">>, <<"refs", "remotes", "origin", "master">>}

---------------------------------------------------------------------------
(* commit, outside a merge.                                                *)

\* the commit that commit(m) is to create in r outside a merge
NextCommit(r, m) ==
    Commit(Tree(toc(r)), m,
           IF hash(r, <<"HEAD">>) = None THEN <<>> ELSE <<hash(r, <<"HEAD">>)>>)

\* C2: a commit that succeeds outside a merge creates the commit whose tree
\* is the tree of the stage-0 TOC and whose parents are the previous HEAD
\* commit (none when HEAD resolved to none), and moves exactly one ref to it:
\* the current branch when HEAD is attached, HEAD itself when it is detached;
\* afterwards HEAD resolves to the new commit and no other ref has changed.
C2_CommitOutsideMerge ==
    LET r == world["L"] IN
    \A m \in Msgs :
        LET res == commit(r, m)
            new == NextCommit(r, m)
        IN (r.inRepo /\ ~isMergeInProgress(r) /\ res.ok) =>
            /\ CommitsOf(res.r) = CommitsOf(r) \cup {new}
            /\ hash(res.r, <<"HEAD">>) = new
            /\ res.r.refs =
                 (IF isHeadDetached(r) THEN <<"HEAD">> :> new
                  ELSE toLocalRef(headBranchName(r)) :> new) @@ r.refs

---------------------------------------------------------------------------
(* checkout.                                                               *)

\* the local heads and remote-tracking refs of r
BranchRefsOf(r) == [x \in {y \in DOMAIN r.refs : IsBranchRef(y)} |-> r.refs[x]]

\* C8: after checkout(ref) succeeds with "Switched to branch" or with the
\* detached-HEAD note, HEAD resolves to the commit ref resolved to before the
\* call, the index is that commit's TOC with no conflict stages, HEAD is
\* detached exactly when ref was given as an object hash, and no refs/heads
\* or refs/remotes ref has changed; for every form of ref that resolves to a
\* commit (a branch name, a qualified ref, the name HEAD, a commit hash).
C8_CheckoutPostconditions ==
    LET r == world["L"] IN
    \A ref \in CheckoutRefs(r) :
        LET res == checkout(r, ref)
            to == hash(r, ref)
        IN (res.ok /\ res.msg \in {"Switched to branch", "You are in detached HEAD state"})
           => /\ hash(res.r, <<"HEAD">>) = to
              /\ res.r.index = tocToIndex(commitToc(r, to))
              /\ isHeadDetached(res.r) <=> ref \in r.objects
              /\ BranchRefsOf(res.r) = BranchRefsOf(r)

---------------------------------------------------------------------------
(* merge: the fast-forward.                                                *)

\* C5: merge(ref) with an attached HEAD, no blocking local change and a
\* receiver that is none or a proper ancestor of the giver returns
\* "Fast-forward", creates no commit, and leaves the current branch at the
\* giver, the index TOC equal to the giver's TOC, HEAD attached to the same
\* branch and no MERGE_HEAD.
C5_FastForward ==
    LET r == world["L"] IN
    \A ref \in BranchNames :
        \A base \in MergeBases(r, ref) :
            LET res == merge(r, ref, base)
                receiver == hash(r, <<"HEAD">>)
                giver == hash(r, ref)
            IN (/\ r.inRepo /\ ~isHeadDetached(r)
                /\ giver \in CommitsOf(r)
                /\ changedFilesCommitWouldOverwrite(r, giver) = {}
                /\ (receiver = None \/ isAncestor(r, receiver, giver)))
               => /\ res.ok /\ res.msg = "Fast-forward"
                  /\ CommitsOf(res.r) = CommitsOf(r)
                  /\ hash(res.r, headBranchName(r)) = giver
                  /\ toc(res.r) = commitToc(r, giver)
                  /\ res.r.refs[<<"HEAD">>] = r.refs[<<"HEAD">>]
                  /\ <<"MERGE_HEAD">> \notin DOMAIN res.r.refs

---------------------------------------------------------------------------
(* commit and merge: the merge state.                                      *)

\* C3: whenever the index holds a stage 1, 2 or 3 entry for some path,
\* commit fails with the unresolved-conflicts error, creates no commit, moves
\* no ref and leaves MERGE_HEAD, MERGE_MSG and the index unchanged.
C3_ConflictsRefuseCommit ==
    LET r == world["L"] IN
    \A m \in Msgs :
        LET res == commit(r, m) IN
        (r.inRepo /\ conflictedPaths(r) # {}) =>
            /\ ~res.ok
            /\ res.msg = "cannot commit because you have unmerged files"
            /\ CommitsOf(res.r) = CommitsOf(r)
            /\ res.r.refs = r.refs
            /\ res.r.MERGE_MSG = r.MERGE_MSG
            /\ res.r.index = r.index

\* merge(ref) in r takes the non-fast-forward path: HEAD is attached, ref
\* resolves to a commit, receiver and giver have diverged and no local change
\* blocks the merge
Diverged(r, ref) ==
    /\ r.inRepo /\ ~isHeadDetached(r)
    /\ hash(r, <<"HEAD">>) \in CommitsOf(r)
    /\ hash(r, ref) \in CommitsOf(r)
    /\ ~isUpToDate(r, hash(r, <<"HEAD">>), hash(r, ref))
    /\ ~isAncestor(r, hash(r, <<"HEAD">>), hash(r, ref))
    /\ changedFilesCommitWouldOverwrite(r, hash(r, ref)) = {}

\* C4: whenever merge(ref) takes the non-fast-forward path and the three-way
\* diff has no conflict, merge returns normally having created a commit
\* whose tree is the three-way merged TOC and whose parents are
\* [receiver, giver]; the current branch points at that commit, and
\* MERGE_HEAD and MERGE_MSG are absent.
C4_MergeClosure ==
    LET r == world["L"] IN
    \A ref \in BranchNames :
        \A base \in MergeBases(r, ref) :
            LET res == merge(r, ref, base)
                receiver == hash(r, <<"HEAD">>)
                giver == hash(r, ref)
                d == mergeDiff(r, receiver, giver, base)
                new == hash(res.r, toLocalRef(headBranchName(r)))
            IN (Diverged(r, ref) /\ mergeConflicts(d) = {}) =>
                /\ res.ok
                /\ new \in CommitsOf(res.r) \ CommitsOf(r)
                /\ treeHash(new) = Tree(mergedToc(d))
                /\ parentHashes(new) = <<receiver, giver>>
                /\ <<"MERGE_HEAD">> \notin DOMAIN res.r.refs
                /\ res.r.MERGE_MSG = None

\* C6: when a non-fast-forward merge finds a conflicted path, merge returns
\* "Automatic merge failed. Fix conflicts and commit the result.", creates no
\* commit, leaves the current branch at the receiver and MERGE_HEAD at the
\* giver; each conflicted path has no stage 0 and has stages 1/2/3 equal to
\* its blob in base/receiver/giver, and every other path has only a stage-0
\* entry, holding the merged blob.
C6_ConflictMerge ==
    LET r == world["L"] IN
    \A ref \in BranchNames :
        \A base \in MergeBases(r, ref) :
            LET res == merge(r, ref, base)
                receiver == hash(r, <<"HEAD">>)
                giver == hash(r, ref)
                d == mergeDiff(r, receiver, giver, base)
            IN (Diverged(r, ref) /\ mergeConflicts(d) # {}) =>
                /\ res.ok
                /\ res.msg = "Automatic merge failed. Fix conflicts and commit the result."
                /\ CommitsOf(res.r) = CommitsOf(r)
                /\ res.r.refs[<<"HEAD">>] = r.refs[<<"HEAD">>]
                /\ hash(res.r, <<"HEAD">>) = receiver
                /\ BranchRefsOf(res.r) = BranchRefsOf(r)
                /\ res.r.refs[<<"MERGE_HEAD">>] = giver
                /\ \A p \in Paths :
                      IF commitToc(r, receiver)[p] # commitToc(r, giver)[p]
                         /\ commitToc(r, receiver)[p] # commitToc(r, base)[p]
                         /\ commitToc(r, giver)[p] # commitToc(r, base)[p]
                      THEN /\ res.r.index[p][0] = None
                           /\ res.r.index[p][1] = commitToc(r, base)[p]
                           /\ res.r.index[p][2] = commitToc(r, receiver)[p]
                           /\ res.r.index[p][3] = commitToc(r, giver)[p]
                      ELSE /\ res.r.index[p][0] =
                                IF commitToc(r, giver)[p] = commitToc(r, base)[p]
                                THEN commitToc(r, receiver)[p]
                                ELSE commitToc(r, giver)[p]
                           /\ \A st \in 1..3 : res.r.index[p][st] = None

\* a conflicted merge has acted: MERGE_HEAD is set beside the branch, some
\* path holds the receiver's and the giver's blob at stages 2 and 3 and no
\* stage 0, and its file carries both contents
C6_Witness ==
    LET r == world["L"] IN
    /\ r.inRepo /\ isMergeInProgress(r)
    /\ r.refs[<<"MERGE_HEAD">>] # hash(r, <<"HEAD">>)
    /\ \E p \in Paths :
          /\ r.index[p][0] = None
          /\ r.index[p][2] # None /\ r.index[p][3] # None
          /\ r.index[p][2] # r.index[p][3]
          /\ r.wc[p] = conflictFile(r.index[p][2], r.index[p][3])
    /\ \E p \in Paths : r.index[p][0] # None

\* C7: from any state with a merge in progress and no conflicted path left
\* in the index, whatever the conflicts were resolved to, the next commit
\* succeeds, creates a commit with parents [HEAD, MERGE_HEAD] whose message
\* is the content of MERGE_MSG, and removes MERGE_HEAD and MERGE_MSG.
C7_MergeStateExits ==
    LET r == world["L"] IN
    \A m \in Msgs :
        LET res == commit(r, m)
            new == Commit(Tree(toc(r)), r.MERGE_MSG,
                          <<hash(r, <<"HEAD">>), hash(r, <<"MERGE_HEAD">>)>>)
        IN (r.inRepo /\ isMergeInProgress(r) /\ conflictedPaths(r) = {}) =>
            /\ res.ok
            /\ new \in res.r.objects
            /\ hash(res.r, <<"HEAD">>) = new
            /\ <<"MERGE_HEAD">> \notin DOMAIN res.r.refs
            /\ res.r.MERGE_MSG = None

---------------------------------------------------------------------------
(* checkout and merge: local changes.                                      *)

\* the paths that differ between HEAD's commit and commit to, and between
\* the working copy and HEAD's commit
Blocking(r, to) ==
    {p \in Paths :
        /\ commitToc(r, hash(r, <<"HEAD">>))[p] # commitToc(r, to)[p]
        /\ workingCopyToc(r)[p] # commitToc(r, hash(r, <<"HEAD">>))[p]}

\* the command that yields res has thrown "local changes would be lost" and
\* has left r as it was
RefusedForLocalChanges(r, res) ==
    ~res.ok /\ res.msg = "local changes would be lost" /\ res.r = r

\* the command that yields res has left every working-copy file that
\* differed from HEAD's version of it before the call
KeepsLocalChanges(r, res) ==
    \A p \in Paths :
        workingCopyToc(r)[p] # commitToc(r, hash(r, <<"HEAD">>))[p]
        => res.r.wc[p] = r.wc[p]

\* C9, as the specification states it: checkout(ref) and merge(ref) fail
\* with "local changes would be lost" whenever some path differs between
\* HEAD's commit and the target commit and between the working copy and
\* HEAD, leaving the repository unchanged; and no successful checkout or
\* merge overwrites or deletes a working-copy file that differs from HEAD's
\* version of it.
C9_AsStated ==
    LET r == world["L"] IN
    \A ref \in BranchNames :
        \A base \in MergeBases(r, ref) :
            LET co == checkout(r, ref)
                mg == merge(r, ref, base)
                to == hash(r, ref)
            IN (r.inRepo /\ hash(r, <<"HEAD">>) \in CommitsOf(r) /\ to \in CommitsOf(r)) =>
                /\ Blocking(r, to) # {} =>
                      RefusedForLocalChanges(r, co) /\ RefusedForLocalChanges(r, mg)
                /\ co.ok => KeepsLocalChanges(r, co)
                /\ mg.ok => KeepsLocalChanges(r, mg)

\* C9, amended: with HEAD resolving to a commit, checkout(ref) fails so
\* whenever such a path exists, and merge(ref) does whenever such a path
\* exists, HEAD is attached and the giver is neither HEAD's commit nor one of
\* its ancestors (merge otherwise returns "Already up-to-date", or throws
\* "unsupported" on a detached HEAD, before it looks at local changes); the
\* refusal leaves the repository unchanged, and no successful checkout or
\* merge overwrites or deletes a working-copy file that differs from HEAD's
\* version of it.
C9_LocalChangesBlock ==
    LET r == world["L"] IN
    \A ref \in BranchNames :
        \A base \in MergeBases(r, ref) :
            LET co == checkout(r, ref)
                mg == merge(r, ref, base)
                to == hash(r, ref)
            IN (r.inRepo /\ hash(r, <<"HEAD">>) \in CommitsOf(r) /\ to \in CommitsOf(r)) =>
                /\ Blocking(r, to) # {} => RefusedForLocalChanges(r, co)
                /\ (/\ Blocking(r, to) # {}
                    /\ ~isHeadDetached(r)
                    /\ ~isUpToDate(r, hash(r, <<"HEAD">>), to))
                   => RefusedForLocalChanges(r, mg)
                /\ co.ok => KeepsLocalChanges(r, co)
                /\ mg.ok => KeepsLocalChanges(r, mg)

\* a local change stands in the way of checking out feat and of merging it:
\* both are refused
C9_Witness ==
    LET r == world["L"] IN
    /\ r.inRepo /\ hash(r, <<"HEAD">>) \in CommitsOf(r)
    /\ hash(r, <<"feat">>) \in CommitsOf(r)
    /\ Blocking(r, hash(r, <<"feat">>)) # {}
    /\ ~isUpToDate(r, hash(r, <<"HEAD">>), hash(r, <<"feat">>))
    /\ RefusedForLocalChanges(r, checkout(r, <<"feat">>))
    /\ \A base \in MergeBases(r, <<"feat">>) :
          RefusedForLocalChanges(r, merge(r, <<"feat">>, base))

---------------------------------------------------------------------------
(* push to a branch that the peer has checked out.                         *)

\* the peer P of L is not bare and its HEAD is attached to branch b
PeerHasCheckedOut(w, b) ==
    /\ w["L"].inRepo /\ <<"origin">> \in DOMAIN w["L"].remote
    /\ w["P"].inRepo /\ ~w["P"].bare
    /\ w["P"].refs[<<"HEAD">>] = <<"ref:">> \o toLocalRef(b)

\* C10: push(remote, branch) fails with "refusing to update checked out
\* branch" whenever the peer is not bare and its HEAD is attached to branch,
\* with force too and when the peer is up to date too, and then copies no
\* object and changes no ref on either side; and no push changes the commit
\* that the HEAD of a peer that is not bare resolves to.
C10_PushToCheckedOutRefused ==
    \A b \in BranchNames, f \in BOOLEAN :
        LET res == push(world, "L", <<"origin">>, b, f) IN
        /\ PeerHasCheckedOut(world, b) =>
              /\ ~res.ok
              /\ res.msg = "refusing to update checked out branch"
              /\ res.w = world
              /\ res.mid = <<>>
        /\ (world["P"].inRepo /\ ~world["P"].bare) =>
              /\ hash(res.w["P"], <<"HEAD">>) = hash(world["P"], <<"HEAD">>)
              /\ \A i \in 1..Len(res.mid) :
                    hash(res.mid[i]["P"], <<"HEAD">>) = hash(world["P"], <<"HEAD">>)

\* the peer has master checked out and lacks the commit L's master is at: a
\* push of master, forced or not, is refused
C10_Witness ==
    /\ PeerHasCheckedOut(world, <<"master">>)
    /\ hash(world["L"], <<"master">>) \in CommitsOf(world["L"])
    /\ hash(world["L"], <<"master">>) \notin world["P"].objects
    /\ \A f \in BOOLEAN :
          ~push(world, "L", <<"origin">>, <<"master">>, f).ok

---------------------------------------------------------------------------
(* push: the fast-forward rule.                                            *)

\* L has the remote origin at P, and branch b is at a commit in P and at a
\* commit in L, neither of which is the other or one of its ancestors
PushDiverged(w, b) ==
    /\ w["L"].inRepo /\ <<"origin">> \in DOMAIN w["L"].remote
    /\ w["P"].inRepo
    /\ hash(w["P"], b) \in CommitsOf(w["P"])
    /\ hash(w["L"], b) \in CommitsOf(w["L"])
    /\ hash(w["P"], b) # hash(w["L"], b)
    /\ ~isAncestor(w["L"], hash(w["P"], b), hash(w["L"], b))
    /\ ~isAncestor(w["P"], hash(w["L"], b), hash(w["P"], b))

\* the push that yields res has thrown "failed to push some refs" and has
\* written nothing on either side
RefusedAsNonFastForward(w, res) ==
    ~res.ok /\ res.msg = "failed to push some refs" /\ res.w = w /\ res.mid = <<>>

\* every local head of the peer in w is, in w2, where it was or at a
\* descendant of the commit it was at
PeerMovesForward(w, w2) ==
    \A ref \in DOMAIN w["P"].refs :
        (Len(ref) = 3 /\ ref[1] = "refs" /\ ref[2] = "heads") =>
            /\ ref \in DOMAIN w2["P"].refs
            /\ \/ w2["P"].refs[ref] = w["P"].refs[ref]
               \/ isAncestor(w2["P"], w["P"].refs[ref], w2["P"].refs[ref])

\* an unforced push of any branch, and each write of it, moves the peer's
\* branches forward only
UnforcedPushesMoveForward ==
    \A b \in BranchNames :
        LET res == push(world, "L", <<"origin">>, b, FALSE) IN
        /\ PeerMovesForward(world, res.w)
        /\ \A i \in 1..Len(res.mid) : PeerMovesForward(world, res.mid[i])

\* C11, as the specification states it: without force, push fails with
\* "failed to push some refs" whenever the peer's branch is at a commit that
\* is neither the local branch's commit nor one of its ancestors, nor one of
\* its descendants, copying no object and changing no ref on either side; and
\* every unforced push leaves each branch of the peer where it was or at a
\* descendant of the commit it was at.
C11_AsStated ==
    /\ \A b \in BranchNames :
          PushDiverged(world, b) =>
              RefusedAsNonFastForward(world, push(world, "L", <<"origin">>, b, FALSE))
    /\ UnforcedPushesMoveForward

\* C11, amended: the same, for a branch that the peer has not checked out (a
\* peer that is bare, or whose HEAD is detached or attached to another
\* branch); a push to the branch a peer has checked out fails with "refusing
\* to update checked out branch" before the commits are compared.
C11_NonFastForwardRefused ==
    /\ \A b \in BranchNames :
          (PushDiverged(world, b) /\ ~isCheckedOut(world["P"], b)) =>
              RefusedAsNonFastForward(world, push(world, "L", <<"origin">>, b, FALSE))
    /\ UnforcedPushesMoveForward

\* master has diverged between L and a peer that has another branch checked
\* out: the unforced push of master is refused as a non-fast-forward
C11_Witness ==
    /\ PushDiverged(world, <<"master">>)
    /\ ~isCheckedOut(world["P"], <<"master">>)
    /\ RefusedAsNonFastForward(world, push(world, "L", <<"origin">>, <<"master">>, FALSE))

---------------------------------------------------------------------------
(* push: what a push that returns leaves.                                  *)

\* in w, branch b resolves to the same hash in P and in L (none in both when
\* neither has it), the remote-tracking ref of L for it resolves to that hash
\* too, and P stores every object of L
PushedState(w, b) ==
    /\ hash(w["P"], b) = hash(w["L"], b)
    /\ hash(w["L"], toRemoteRef(<<"origin">>, b)) = hash(w["L"], b)
    /\ w["L"].objects \subseteq w["P"].objects

\* C12: after push(remote, b) returns without an error, forced or not, the
\* peer's b and the local b resolve to the same hash, the local
\* refs/remotes/<remote>/<b> holds that hash, and the peer's object store
\* contains every object of the local store.
C12_PushPostconditions ==
    \A b \in BranchNames, f \in BOOLEAN :
        LET res == push(world, "L", <<"origin">>, b, f) IN
        res.ok => PushedState(res.w, b)

---------------------------------------------------------------------------
(* fetch.                                                                  *)

\* the local heads of r
LocalHeadsOf(r) ==
    [x \in {y \in DOMAIN r.refs : Len(y) = 3 /\ y[1] = "refs" /\ y[2] = "heads"}
        |-> r.refs[x]]

\* C13: after fetch(remote, b) succeeds, refs/remotes/<remote>/<b> holds the
\* hash that b resolves to in the peer, whether or not its old value was an
\* ancestor of it, every object of the peer's store is in the local store,
\* the local HEAD, every refs/heads ref, the index and the working copy are
\* as they were, and so is the peer.
C13_FetchFrame ==
    \A b \in BranchNames :
        LET res == fetch(world, "L", <<"origin">>, b)
            r == world["L"]
            r2 == res.w["L"]
        IN res.ok =>
            /\ toRemoteRef(<<"origin">>, b) \in DOMAIN r2.refs
            /\ r2.refs[toRemoteRef(<<"origin">>, b)] = hash(world["P"], b)
            /\ world["P"].objects \subseteq r2.objects
            /\ r2.refs[<<"HEAD">>] = r.refs[<<"HEAD">>]
            /\ LocalHeadsOf(r2) = LocalHeadsOf(r)
            /\ r2.index = r.index
            /\ r2.wc = r.wc
            /\ res.w["P"] = world["P"]

\* L records master of its peer at a commit that is not an ancestor of the
\* commit the peer's master is at now, L has a commit of its own on a branch
\* and a file in its index, and a fetch of master succeeds
C13_Witness ==
    LET r == world["L"]
        old == hash(r, <<"refs", "remotes", "origin", "master">>)
        new == hash(world["P"], <<"master">>)
    IN /\ r.inRepo /\ old \in CommitsOf(r) /\ new \in CommitsOf(world["P"])
       /\ old # new /\ ~isAncestor(world["P"], old, new)
       /\ hash(r, <<"HEAD">>) \in CommitsOf(r)
       /\ \E p \in Paths : r.index[p][0] # None
       /\ fetch(world, "L", <<"origin">>, <<"master">>).ok

---------------------------------------------------------------------------
(* pull.                                                                   *)

\* pull(origin, b) can run in L: b is at a commit in the peer, the HEAD of L
\* is attached, and no local change of L stands in the way of merging that
\* commit
CanPull(w, b) ==
    /\ w["L"].inRepo /\ ~w["L"].bare /\ <<"origin">> \in DOMAIN w["L"].remote
    /\ w["P"].inRepo
    /\ hash(w["P"], b) \in CommitsOf(w["P"])
    /\ ~isHeadDetached(w["L"])
    /\ changedFilesCommitWouldOverwrite(
           fetch(w, "L", <<"origin">>, b).w["L"], hash(w["P"], b)) = {}

\* the pull that yields res, run in w, has merged commit giver into the
\* current branch of L in one of the four ways a merge ends
PulledCommit(w, res, giver) ==
    LET r == w["L"]
        r2 == res.w["L"]
        receiver == hash(r, <<"HEAD">>)
    IN /\ res.ok
       /\ \/ /\ res.msg = "Already up-to-date"
             /\ isUpToDate(r2, receiver, giver)
             /\ hash(r2, <<"HEAD">>) = receiver
          \/ /\ res.msg = "Fast-forward"
             /\ hash(r2, <<"HEAD">>) = giver
          \/ /\ res.msg = "Merge made by the three-way strategy"
             /\ parentHashes(hash(r2, <<"HEAD">>)) = <<receiver, giver>>
          \/ /\ res.msg = "Automatic merge failed. Fix conflicts and commit the result."
             /\ <<"MERGE_HEAD">> \in DOMAIN r2.refs
             /\ r2.refs[<<"MERGE_HEAD">>] = giver

\* C14: pull(remote, branch), when branch is at a commit in the peer, HEAD is
\* attached and no local change blocks the merge, ends with that commit
\* merged into the current branch: as "Already up-to-date", as a fast-forward
\* to it, as a merge commit with it as second parent, or as a conflict merge
\* state with MERGE_HEAD equal to it; whatever the current branch is called.
C14_PullMergesFetched ==
    \A b \in BranchNames :
        \A base \in PullBases(world, "L", <<"origin">>, b) :
            CanPull(world, b) =>
                PulledCommit(world, pull(world, "L", <<"origin">>, b, base),
                             hash(world["P"], b))

---------------------------------------------------------------------------
(* commit: nothing to commit.                                              *)

\* the command that yields res has thrown the nothing-to-commit error
NothingToCommit(res) ==
    ~res.ok /\ res.msg = "nothing to commit, working directory clean"

\* C15: commit fails with the nothing-to-commit error exactly when HEAD
\* resolves to a commit and the tree of the index's stage-0 TOC is that
\* commit's tree; the failure creates no commit, moves no ref and leaves the
\* index unchanged; and a commit issued right after a successful commit, the
\* index untouched in between, fails with that error.
C15_NothingToCommit ==
    LET r == world["L"] IN
    \A m \in Msgs :
        LET res == commit(r, m)
            head == hash(r, <<"HEAD">>)
        IN r.inRepo =>
            /\ NothingToCommit(res)
                 <=> (head \in CommitsOf(r) /\ Tree(toc(r)) = treeHash(head))
            /\ NothingToCommit(res) =>
                  /\ CommitsOf(res.r) = CommitsOf(r)
                  /\ res.r.refs = r.refs
                  /\ res.r.index = r.index
            /\ res.ok => \A m2 \in Msgs : NothingToCommit(commit(res.r, m2))

---------------------------------------------------------------------------
(* branch.                                                                 *)

\* the names given to branch: the two branch names, a name not yet used, a
\* name with an underscore, and names with slashes
BranchArgs ==
    BranchNames \cup {<<"origin">>, <<"MERGE_HEAD">>, <<"feat", "master">>,
                      <<"refs", "heads", "master">>}

\* name matches [A-Za-z-]+
IsBranchName(name) == Len(name) = 1 /\ name[1] \in LetterWords

\* C16: branch(name) fails when HEAD resolves to no commit, when
\* refs/heads/<name> exists already and when name does not match [A-Za-z-]+,
\* and a failure changes no ref; otherwise it creates refs/heads/<name>
\* holding the hash HEAD resolves to and leaves HEAD, every other ref, the
\* index and the working copy as they were.
C16_Branch ==
    LET r == world["L"] IN
    \A name \in BranchArgs :
        LET res == branch(r, name)
            head == hash(r, <<"HEAD">>)
            ref == <<"refs", "heads">> \o name
        IN r.inRepo =>
            /\ head = None => ~res.ok
            /\ ref \in DOMAIN r.refs => ~res.ok
            /\ ~IsBranchName(name) => ~res.ok
            /\ ~res.ok => res.r = r
            /\ (head # None /\ ref \notin DOMAIN r.refs /\ IsBranchName(name)) =>
                  /\ res.ok
                  /\ res.r = [r EXCEPT !.refs = (ref :> head) @@ r.refs]

\* HEAD is detached at a commit other than the one branch feat was made at:
\* branch feat is refused and a branch of a new name can be made
C16_Witness ==
    LET r == world["L"] IN
    /\ r.inRepo /\ isHeadDetached(r)
    /\ <<"refs", "heads", "feat">> \in DOMAIN r.refs
    /\ r.refs[<<"refs", "heads", "feat">>] # hash(r, <<"HEAD">>)
    /\ ~branch(r, <<"feat">>).ok
    /\ branch(r, <<"origin">>).ok

---------------------------------------------------------------------------
(* update_ref.                                                             *)

\* the refs given to update_ref as the ref to update: HEAD, qualified refs,
\* MERGE_HEAD, and two that fail the ref syntax
UpdateRefArgs ==
    {<<"HEAD">>, <<"MERGE_HEAD">>, <<"refs", "heads", "master">>,
     <<"refs", "heads", "feat">>, <<"refs", "remotes", "origin", "master">>,
     <<"master">>, <<"refs", "heads", "MERGE_HEAD">>}

\* what it is given as the target: HEAD, branch names, a name that resolves
\* to nothing, and every stored object
UpdateRefTargetArgs(r) == {<<"HEAD">>, <<"origin">>} \cup BranchNames \cup r.objects

\* C17: update_ref(refToUpdate, target) fails with "not a valid SHA1" when
\* target resolves to no stored object, else with "cannot lock the ref" when
\* refToUpdate fails isRef, else with "cannot refer to non-commit object"
\* when the object is not a commit, and a failure changes nothing; otherwise
\* it succeeds and writes the hash to terminalRef(refToUpdate) and to nothing
\* else: for HEAD with HEAD attached the current branch ref is written and
\* the content of HEAD is not.
C17_UpdateRef ==
    LET r == world["L"] IN
    \A ref \in UpdateRefArgs, target \in UpdateRefTargetArgs(r) :
        LET res == update_ref(r, ref, target)
            h == hash(r, target)
        IN r.inRepo =>
            IF h \notin r.objects
            THEN ~res.ok /\ res.msg = "not a valid SHA1" /\ res.r = r
            ELSE IF ~isRef(ref)
            THEN ~res.ok /\ res.msg = "cannot lock the ref" /\ res.r = r
            ELSE IF h \notin CommitsOf(r)
            THEN ~res.ok /\ res.msg = "cannot refer to non-commit object" /\ res.r = r
            ELSE /\ res.ok
                 /\ res.r = [r EXCEPT !.refs = (terminalRef(r, ref) :> h) @@ r.refs]
                 /\ (ref = <<"HEAD">> /\ ~isHeadDetached(r)) =>
                       /\ res.r.refs[<<"HEAD">>] = r.refs[<<"HEAD">>]
                       /\ res.r.refs[Tail(r.refs[<<"HEAD">>])] = h

---------------------------------------------------------------------------
(* clone.                                                                  *)

\* C18: clone(src, dst), bare or not, into a dst that is absent or empty
\* from a src that is a repository yields a repository whose remote origin
\* is src; when master resolves to a commit in src, refs/heads/master and
\* refs/remotes/origin/master of dst hold that commit, the HEAD of dst is
\* attached to master, the index TOC of dst is that commit's TOC and the
\* store of dst contains every object of src; when src has no master, dst
\* has no commit; src is unchanged.  When dst is not empty or src is not a
\* repository, clone fails and writes nothing.
C18_Clone ==
    \A bare \in BOOLEAN :
        LET res == clone(world, "P", "L", bare)
            src == world["P"]
            dst == res.w["L"]
            m == hash(src, <<"master">>)
        IN /\ (isEmptyDir(world["L"]) /\ src.inRepo) =>
                /\ res.ok
                /\ dst.inRepo /\ dst.bare = bare
                /\ dst.remote = (<<"origin">> :> "P")
                /\ res.w["P"] = src
                /\ m # None =>
                      /\ <<"refs", "heads", "master">> \in DOMAIN dst.refs
                      /\ dst.refs[<<"refs", "heads", "master">>] = m
                      /\ <<"refs", "remotes", "origin", "master">> \in DOMAIN dst.refs
                      /\ dst.refs[<<"refs", "remotes", "origin", "master">>] = m
                      /\ dst.refs[<<"HEAD">>] = <<"ref:", "refs", "heads", "master">>
                      /\ dst.index = tocToIndex(commitToc(src, m))
                      /\ src.objects \subseteq dst.objects
                /\ m = None => CommitsOf(dst) = {}
           /\ (~isEmptyDir(world["L"]) \/ ~src.inRepo) =>
                /\ ~res.ok
                /\ res.w = world
                /\ res.mid = <<>>

\* L is a clone of P as P stands: origin is P, master and origin/master of L
\* are at the commit of P's master, whose tree holds a file, and the index
\* and the working copy of L hold that tree
C18_Witness ==
    LET src == world["P"]
        dst == world["L"]
        m == hash(src, <<"master">>)
    IN /\ src.inRepo /\ dst.inRepo
       /\ dst.remote = (<<"origin">> :> "P")
       /\ m \in CommitsOf(src)
       /\ commitToc(src, m) # EmptyToc
       /\ hash(dst, <<"master">>) = m
       /\ hash(dst, <<"refs", "remotes", "origin", "master">>) = m
       /\ dst.refs[<<"HEAD">>] = <<"ref:", "refs", "heads", "master">>
       /\ toc(dst) = commitToc(src, m)
       /\ workingCopyToc(dst) = commitToc(src, m)
       /\ src.objects \subseteq dst.objects

---------------------------------------------------------------------------
(* The index invariant.                                                    *)

\* no path of the index of r has a stage-0 entry beside an entry of stage
\* 1, 2 or 3
IndexInvariant(r) ==
    \A p \in Paths :
        r.index[p][0] # None => \A s \in 1..3 : r.index[p][s] = None

\* C19: after any sequence of add, rm, update_index, commit, checkout and
\* pull, and after a merge of any ref run from there (and after each write of
\* that merge), no path in the index has a stage-0 entry together with an
\* entry of stage 1, 2 or 3.
C19_IndexInvariant ==
    /\ \A x \in Repos : IndexInvariant(world[x])
    /\ \A ref \in MergeRefs :
          \A base \in MergeBases(world["L"], ref) :
              LET res == merge(world["L"], ref, base) IN
              /\ IndexInvariant(res.r)
              /\ \A i \in 1..Len(res.mid) : IndexInvariant(res.mid[i])

\* a merge is in progress in L and a path that was in conflict has been
\* added again: its file with both contents is at stage 0 and its stages 1,
\* 2 and 3 are gone
C19_Witness ==
    LET r == world["L"] IN
    /\ r.inRepo /\ isMergeInProgress(r)
    /\ \E p \in Paths :
          /\ r.index[p][0] # None
          /\ blobContent(r.index[p][0])[1] = "conflict"
          /\ \A s \in 1..3 : r.index[p][s] = None

---------------------------------------------------------------------------
(* rm.                                                                     *)

\* the paths given to rm: each file, and the directory that holds them
RmArgs == Paths \cup {"."}

\* file p is on disk in r with a content other than its stage-0 blob
ModifiedOnDisk(r, p) == r.wc[p] # None /\ Blob(r.wc[p]) # r.index[p][0]

\* C20: in a work tree, rm(path, opts) fails with "unsupported" whenever
\* opts.f is set, fails when no index path matches path, fails when path is
\* a directory and opts.r is not set, and fails when a matched file has a
\* content on disk that differs from the index; a failure deletes no file and
\* changes no index entry.  Otherwise rm returns, and afterwards none of the
\* matched paths is on disk or in the index at any stage.
C20_Rm ==
    LET r == world["L"] IN
    \A path \in RmArgs, optF \in BOOLEAN, optR \in BOOLEAN :
        LET res == rm(r, path, optF, optR)
            matched == matchingFiles(r, path)
            refused == \/ optF
                       \/ matched = {}
                       \/ IsDirectory(path) /\ ~optR
                       \/ \E p \in matched : ModifiedOnDisk(r, p)
        IN (r.inRepo /\ ~r.bare) =>
            /\ optF => (~res.ok /\ res.msg = "unsupported")
            /\ refused => ~res.ok
            /\ ~res.ok => (res.r.wc = r.wc /\ res.r.index = r.index)
            /\ ~refused =>
                  /\ res.ok
                  /\ \A p \in matched :
                        /\ res.r.wc[p] = None
                        /\ \A s \in Stages : res.r.index[p][s] = None

---------------------------------------------------------------------------
(* update_index of a conflicted path.                                      *)

\* C21: update_index(path, {remove: true}) on a path that is in conflict in
\* the index (an entry at stage 1, 2 or 3) fails with the "unsupported"
\* error and leaves the index unchanged.
C21_RemoveConflictedUnsupported ==
    LET r == world["L"] IN
    \A p \in Paths :
        LET res == update_index(r, p, FALSE, TRUE) IN
        (r.inRepo /\ ~r.bare /\ isFileInConflict(r, p)) =>
            /\ ~res.ok
            /\ res.msg = "unsupported"
            /\ res.r.index = r.index

---------------------------------------------------------------------------
(* The syntax of refs.                                                     *)

\* the path segments of the strings given to isRef: words of letters, the
\* names with an underscore, a name with a digit and the empty segment
RefSegments ==
    {"refs", "heads", "remotes", "master", "origin", "HEAD", "MERGE_HEAD",
     "FETCH_HEAD", "MERGE_MSG", "v1", ""}

\* the segments that are non-empty strings over [A-Za-z-]
NameSegments ==
    {"refs", "heads", "remotes", "master", "feat", "origin", "HEAD", "undefined"}

MaxSegments == 4

\* the strings given to isRef: every string of up to MaxSegments segments,
\* the empty string among them, and a remote-tracking ref with one more slash
RefStrings ==
    UNION {[1..n -> RefSegments] : n \in 0..MaxSegments}
        \cup {<<"refs", "remotes", "origin", "master", x>> : x \in RefSegments}

\* refs/heads/<name> and refs/remotes/<remote>/<name>
IsBranchForm(name) ==
    \/ Len(name) = 3 /\ name[1] = "refs" /\ name[2] = "heads"
          /\ name[3] \in NameSegments
    \/ Len(name) = 4 /\ name[1] = "refs" /\ name[2] = "remotes"
          /\ name[3] \in NameSegments /\ name[4] \in NameSegments

\* the ref forms of the data model, MERGE_MSG among them
IsRefForm(name) ==
    \/ name \in {<<"HEAD">>, <<"MERGE_HEAD">>, <<"MERGE_MSG">>, <<"FETCH_HEAD">>}
    \/ IsBranchForm(name)

\* the names of the files that hold a hash or a ref
IsRefName(name) ==
    \/ name \in {<<"HEAD">>, <<"MERGE_HEAD">>, <<"FETCH_HEAD">>}
    \/ IsBranchForm(name)

\* C22 as stated: isRef(name) is true exactly for the ref forms of the data
\* model: HEAD, MERGE_HEAD, MERGE_MSG, FETCH_HEAD, refs/heads/<name> and
\* refs/remotes/<remote>/<name> with <name> and <remote> non-empty strings
\* over [A-Za-z-]; it is false for every other string.
C22_AsStated ==
    world["L"].inRepo => \A name \in RefStrings : isRef(name) <=> IsRefForm(name)

\* C22: isRef(name) is true exactly for HEAD, MERGE_HEAD, FETCH_HEAD,
\* refs/heads/<name> and refs/remotes/<remote>/<name> with <name> and
\* <remote> non-empty strings over [A-Za-z-]; it is false for every other
\* string (MERGE_MSG, an unqualified branch name, a name with a digit, with
\* an underscore or with one more slash, the empty string).
C22_IsRef ==
    world["L"].inRepo => \A name \in RefStrings : isRef(name) <=> IsRefName(name)

\* the repository holds a branch besides master: refs.write has tested with
\* isRef the names HEAD, refs/heads/master and refs/heads/feat
C22_Witness ==
    LET r == world["L"] IN
    /\ r.inRepo
    /\ <<"refs", "heads", "master">> \in DOMAIN r.refs
    /\ <<"refs", "heads", "feat">> \in DOMAIN r.refs

---------------------------------------------------------------------------
(* The parents of a merge commit.                                          *)
(*                                                                         *)
(* SpecMerge: repository L fetches master of its peer P and merges it,     *)
(* and its user may check out master or a commit at any time.  Beside      *)
(* the repositories the world records, under "merges", the pair            *)
(* <<receiver, giver>> of every merge that wrote MERGE_HEAD: the commit    *)
(* HEAD resolved to and the commit the merge was asked to merge.           *)

\* commits the two stores may hold together in the runs that close a merge
MaxMergeCommits == 3

InitMerge == world = [x \in Repos |-> NoRepo] @@ ("merges" :> {})

\* whether the merge that yields res, run in repository me, took the
\* non-fast-forward path: its first write is that of MERGE_HEAD
WroteMergeHead(res, me, giverHash) ==
    /\ Len(res.mid) > 0
    /\ <<"MERGE_HEAD">> \in DOMAIN res.mid[1][me].refs
    /\ res.mid[1][me].refs[<<"MERGE_HEAD">>] = giverHash

\* merge(ref) in repository me, the merge it starts being recorded; res is
\* the outcome of the one run of merge
DoMergeRecorded(me, ref, base, max) ==
    \E res \in {Local(world, me, merge(world[me], ref, base))} :
        LET r == world[me]
            pair == <<hash(r, <<"HEAD">>), hash(r, ref)>>
        IN /\ Cardinality(AllCommits(res.w)) <= max
           /\ world' = [res.w EXCEPT !["merges"] =
                           IF WroteMergeHead(res, me, hash(r, ref))
                           THEN @ \cup {pair} ELSE @]

\* the refs the user of L checks out: its branch or a commit hash
CheckoutTargets(r) == {<<"master">>} \cup CommitsOf(r)

NextMerge ==
    \/ DoInit("P", FALSE)
    \/ DoInit("L", FALSE)
    \/ DoRemote("L", <<"origin">>, "P")
    \/ \E me \in Repos, e \in SyncEdits : WriteFile(me, e[1], e[2])
    \/ \E me \in Repos : DoAdd(me, "a", MaxMergeCommits)
    \/ \E m \in Msgs : DoCommit("P", m, MaxSyncCommits)
    \/ \E m \in Msgs : DoCommit("L", m, MaxMergeCommits)
    \/ \E ref \in CheckoutTargets(world["L"]) : DoCheckout("L", ref, MaxMergeCommits)
    \/ DoFetch("L", <<"origin">>, <<"master">>, MaxMergeCommits)
    \/ \E base \in MergeBases(world["L"], <<"FETCH_HEAD">>) :
         DoMergeRecorded("L", <<"FETCH_HEAD">>, base, MaxMergeCommits)

SpecMerge == InitMerge /\ [][NextMerge]_vars

TwoParentCommits(r) == {c \in CommitsOf(r) : Len(parentHashes(c)) = 2}

\* C23: every commit with two parents in a reachable repository has the
\* parents, in order, <<receiver, giver>> of a merge that was invoked: the
\* commit the current branch was on when merge was invoked and the commit
\* that merge was asked to merge, whatever ran (checkout, branch, add,
\* another merge) between the start of the merge and the commit closing it.
C23_MergeParents ==
    \A x \in Repos :
        \A c \in TwoParentCommits(world[x]) : parentHashes(c) \in world["merges"]

---------------------------------------------------------------------------
(* The records of FETCH_HEAD.                                              *)

\* the record lines of FETCH_HEAD in r, each <<hash, branch, url>>
FetchHeadLines(r) ==
    IF <<"FETCH_HEAD">> \in DOMAIN r.refs THEN r.refs[<<"FETCH_HEAD">>] ELSE <<>>

\* the lines of FETCH_HEAD in r that name branch b
FetchHeadLinesOf(r, b) ==
    {i \in 1..Len(FetchHeadLines(r)) : FetchHeadLines(r)[i][2] = b}

\* the branches of origin that r has fetched: fetch alone writes their
\* remote-tracking refs, with the hash it obtained
FetchedBranches(r) ==
    {b \in BranchNames : toRemoteRef(<<"origin">>, b) \in DOMAIN r.refs}

\* C24: after fetches of several branches of a remote, one after the other,
\* FETCH_HEAD holds one record line "<hash> branch <b> of <url>" for each
\* branch fetched, with the hash that the most recent fetch of that branch
\* obtained.
C24_FetchHeadRecords ==
    LET r == world["L"] IN
    r.inRepo =>
        \A b \in FetchedBranches(r) :
            /\ Cardinality(FetchHeadLinesOf(r, b)) = 1
            /\ \A i \in FetchHeadLinesOf(r, b) :
                  FetchHeadLines(r)[i] =
                      <<r.refs[toRemoteRef(<<"origin">>, b)], b, r.remote[<<"origin">>]>>

---------------------------------------------------------------------------
(* refs.hash.                                                              *)
(*                                                                         *)
(* SpecHash: repository L fetches the branches of its peer P, one of them  *)
(* named "undefined", and its user checks out master or a commit.          *)

\* the branches of P that L fetches
FetchNames == {<<"master">>, <<"undefined">>}

NextHash ==
    \/ DoInit("P", FALSE)
    \/ DoInit("L", FALSE)
    \/ DoRemote("L", <<"origin">>, "P")
    \/ \E me \in Repos, e \in SyncEdits : WriteFile(me, e[1], e[2])
    \/ \E me \in Repos : DoAdd(me, "a", MaxSyncCommits)
    \/ \E me \in Repos, m \in Msgs : DoCommit(me, m, MaxSyncCommits)
    \/ DoBranch("P", <<"undefined">>, MaxSyncCommits)
    \/ \E b \in FetchNames : DoFetch("L", <<"origin">>, b, MaxSyncCommits)
    \/ \E ref \in CheckoutTargets(world["L"]) : DoCheckout("L", ref, MaxSyncCommits)

SpecHash == Init /\ [][NextHash]_vars

\* what is given to refs.hash in r: the hash of every stored object, a hash
\* of no stored object, the state refs, qualified refs and unqualified names
HashArgs(r) ==
    r.objects
        \cup {Blob(<<"txt", 0>>)}
        \cup {<<"HEAD">>, <<"MERGE_HEAD">>, <<"FETCH_HEAD">>, <<"MERGE_MSG">>}
        \cup {toLocalRef(b) : b \in BranchNames \cup FetchNames}
        \cup {toRemoteRef(<<"origin">>, b) : b \in FetchNames}
        \cup BranchNames \cup FetchNames \cup {<<"origin">>}

\* HEAD holds "ref: <ref>"
HeadAttached(r) == r.refs[<<"HEAD">>][1] = "ref:"

\* the ref that name resolves to: the ref HEAD holds while it is attached, a
\* qualified ref itself, refs/heads/<name> for any other name
TerminalOf(r, name) ==
    IF name = <<"HEAD">> /\ HeadAttached(r) THEN Tail(r.refs[<<"HEAD">>])
    ELSE IF IsRefName(name) THEN name
    ELSE <<"refs", "heads">> \o name

\* the hash of the record of FETCH_HEAD that names the current branch
FetchedForCurrentBranch(r) ==
    LET mine == IF HeadAttached(r)
                THEN FetchHeadLinesOf(r, SubSeq(r.refs[<<"HEAD">>], 4,
                                                 Len(r.refs[<<"HEAD">>])))
                ELSE {}
    IN IF mine = {} THEN None
       ELSE FetchHeadLines(r)[CHOOSE i \in mine : TRUE][1]

\* C25: refs.hash(x) returns x itself when x is the hash of an existing
\* object; otherwise it resolves the terminal ref of x (HEAD while attached
\* gives the current branch's refs/heads/<b>, a qualified ref gives itself,
\* any other name n gives refs/heads/n) and returns the hash stored under
\* that ref, or none when the ref does not exist.  For FETCH_HEAD it returns
\* the hash of the FETCH_HEAD record naming the current branch, and none
\* when HEAD is detached or no record names the current branch.
C25_Hash ==
    \A me \in Repos :
        LET r == world[me] IN
        r.inRepo =>
            \A x \in HashArgs(r) :
                hash(r, x) =
                    IF x \in r.objects THEN x
                    ELSE IF x = <<"FETCH_HEAD">> THEN FetchedForCurrentBranch(r)
                    ELSE IF TerminalOf(r, x) \in DOMAIN r.refs
                         THEN r.refs[TerminalOf(r, x)]
                    ELSE None

---------------------------------------------------------------------------
(* The cases of update_index.                                              *)

\* the paths given to update_index: each file, and the directory holding them
UpdateIndexArgs == Paths \cup {"."}

\* the index of r2 is that of r but for path p, which has entry e
IndexSetsOnly(r, r2, p, e) ==
    /\ r2.index[p] = e
    /\ \A q \in Paths \ {p} : r2.index[q] = r.index[q]

---------------------------------------------------------------------------
(* HEAD.                                                                   *)

\* HEAD of r holds the hash of a commit of r's store, or "ref: refs/heads/<b>"
\* with <b> a non-empty string over [A-Za-z-]
HeadWellFormed(r) ==
    /\ <<"HEAD">> \in DOMAIN r.refs
    /\ LET c == r.refs[<<"HEAD">>] IN
       \/ c \in CommitsOf(r)
       \/ /\ Len(c) = 4
          /\ c[1] = "ref:" /\ c[2] = "refs" /\ c[3] = "heads"
          /\ c[4] \in NameSegments

\* C27: in every reachable state from init onward HEAD exists and is well
\* formed: right after init it is "ref: refs/heads/master", attached and
\* resolving to none, and after any sequence of operations it is either the
\* raw hash of an existing commit (detached) or "ref: refs/heads/<b>" with
\* <b> a valid branch name matching [A-Za-z-]+.
C27_HeadWellFormed ==
    \A x \in Repos :
        LET r == world[x] IN
        /\ r.inRepo => HeadWellFormed(r)
        /\ ~r.inRepo =>
              \A bare \in BOOLEAN :
                  LET r1 == init(r, bare).r IN
                  /\ r1.refs[<<"HEAD">>] = <<"ref:", "refs", "heads", "master">>
                  /\ ~isHeadDetached(r1)
                  /\ hash(r1, <<"HEAD">>) = None

---------------------------------------------------------------------------
(* Conflicts and the merge state.                                          *)

\* a conflicted path in the index of r comes with MERGE_HEAD
ConflictsWithinMerge(r) ==
    (r.inRepo /\ conflictedPaths(r) # {}) => <<"MERGE_HEAD">> \in DOMAIN r.refs

\* the same after each write of the command of repository me that yields res
MidWithinMerge(res) == \A i \in 1..Len(res.mid) : ConflictsWithinMerge(res.mid[i])

\* C28: in every reachable state, if the index holds a conflicted path (an
\* entry at stage 1, 2 or 3) then a merge is in progress, that is MERGE_HEAD
\* exists: the conflict stages are written only after MERGE_HEAD, and no
\* command removes MERGE_HEAD while a conflicted path remains.  The state
\* after each single write of a merge or of a commit is included.
C28_ConflictsWithinMerge ==
    \A x \in Repos :
        LET r == world[x] IN
        /\ ConflictsWithinMerge(r)
        /\ \A m \in Msgs : MidWithinMerge(commit(r, m))
        /\ \A ref \in MergeRefs :
              \A base \in MergeBases(r, ref) : MidWithinMerge(merge(r, ref, base))

\* a merge of L has stopped on a conflict: a path is at stages 2 and 3 and
\* MERGE_HEAD holds the commit being merged
C28_Witness ==
    LET r == world["L"] IN
    /\ r.inRepo
    /\ conflictedPaths(r) # {}
    /\ <<"MERGE_HEAD">> \in DOMAIN r.refs
    /\ r.refs[<<"MERGE_HEAD">>] \in CommitsOf(r)

====
